---- MODULE Spec2Model ----
(***************************************************************************)
(* RoadGateway: the rate-limiting and quota engine of                      *)
(* src/src/middleware/rate-limiter-advanced.ts as a state machine.         *)
(*                                                                         *)
(* Time is Date.now() in milliseconds, counted from midnight (UTC) of the  *)
(* day `startDay` (a day number since 1970-01-01).  The KV store is one    *)
(* record per storage key of a single client key; a stored value is a set  *)
(* with at most one element ({} = no record), together with the second at  *)
(* which its expirationTtl runs out.                                       *)
(***************************************************************************)
EXTENDS Integers, Sequences, FiniteSets, TLC

VARIABLES
    now,        \* Date.now(), ms since midnight of startDay
    startDay,   \* day number (since 1970-01-01) of the day the run starts on
    config,     \* the RateLimitConfig / QuotaConfig given to the constructor
    kv,         \* the KV namespace: storage key -> {} or {[val, exp]}
    last,       \* the result returned by the most recent call ({} before any)
    log,        \* times of the allowed=true results (of cost 1) that a window reaching now can still hold
    burst,      \* token bucket: cost-1 checks issued at this instant right after a quiescent period (-1: not in a burst)
    pc,         \* worker -> "idle" | "called" (awaiting kv.get) | "got" (awaiting kv.put);
                \* adaptive limiter also "factor" (check awaiting the get of the load factor) and "putting" (updateLoadFactor awaiting its put)
    snap,       \* worker -> {} or {its call in flight: the Date.now() it read, its cost and, after the get, its decision}
    tally,      \* observer: worker -> how many of its calls overlapped another worker's (counted up to 2), and whether the current one does
    members,    \* CompositeRateLimiter.limiters
    probed,     \* the member checks made by the most recent composite check, in order: name, outcome, and whether in the loop or after it
    prev,       \* quota: the call before the most recent one, what the most recent one read, and the resetQuota calls around it;
                \* adaptive limiter: the most recent updateLoadFactor call, whether it has returned and whether a check returned after it
    loadFactor, \* AdaptiveRateLimiter.loadFactor, in hundredths
    metrics,    \* MetricsCollector.metrics, the buffer of request metrics
    recorded,   \* every metric passed to MetricsCollector.record so far, in call order
    healthChecks, \* MetricsCollector.healthChecks: upstream -> {} or {the stored HealthCheckResult}
    calls,      \* checkUpstream calls awaiting their fetch: worker -> {} or {what the call read before the await}
    health,     \* observer: checks completed, and failed ones completed since the most recently completed success
    unexpiring, \* the KV namespace of a run of the same checks in which records never expire
    twin,       \* the result the most recent check returns against the namespace that never expires records
    cleared     \* observer: how many record calls had been made when clear was last called (0 before any clear)

vars == <<now, startDay, config, kv, last, log, burst, pc, snap, tally, members, probed, prev, loadFactor, metrics, recorded, healthChecks, calls, health, unexpiring, twin, cleared>>

----------------------------------------------------------------------------
(* Bounds of the model *)

\* checkUpstream is called at most this many times, and the clock of the
\* health model advances this many seconds
MaxHealthChecks == 4
MaxHealthTicks == 1

\* the aggregation model records at most this many metrics after its initial
\* buffer, and its clock advances this many minutes
MaxAggRecords == 1
MaxAggMinutes == 2

\* the clock of the expiry model advances this many half hours
MaxTtlTicks == 3

\* record is called at most this many times
MaxRecords == 4

\* the clock stops advancing after this many seconds
MaxSeconds == 4

\* the clock of a slow token bucket advances by this many refill intervals
MaxDrips == 1

\* while a check is in flight the clock advances at most this many half seconds
MaxLatencyTicks == 1

\* a composite limiter gets at most this many members, and the clock of
\* its model advances this many half seconds
MaxMembers == 2
MaxCompositeTicks == 2

\* number of concurrent workers of the racy sliding-window model
NumWorkers == 2

\* minutes and days the clock of the quota model advances
MaxQuotaMinutes == 2
MaxQuotaDays == 2

\* half seconds the clock of the racy model advances
MaxRaceTicks == 2

\* the clock of the adaptive limiter advances this many seconds
MaxAdaptiveTicks == 1

\* the gateway clock advances this many half windows
MaxMwTicks == 2

Workers == 1..NumWorkers

\* the upstream whose health is checked
Upstreams == {"http://upstream"}

----------------------------------------------------------------------------
(* Arithmetic helpers *)

Max(a, b) == IF a >= b THEN a ELSE b
Min(a, b) == IF a <= b THEN a ELSE b

\* Math.ceil(a / b) and Math.floor(a / b) for an integer a and a positive integer b
CeilDivDown(a, b) == a \div b
CeilDiv(a, b) == -((-a) \div b)
FloorDiv(a, b) == a \div b

\* Math.min(...history): the oldest entry of a non-empty history
MinOf(h) == CHOOSE t \in {h[i] : i \in 1..Len(h)} : \A j \in 1..Len(h) : t <= h[j]

----------------------------------------------------------------------------
(* The KV namespace *)

KeySW == "rl:sw:"
KeyTB == "rl:tb:"
KeyLB == "rl:lb:"
KeyQuota == "quota:"

Keys == {KeySW, KeyTB, KeyLB, KeyQuota}

EmptyKV == [k \in Keys |-> {}]

\* kv.get(key, 'json'): the stored value, {} when absent or expired
KVGet(store, k, t) == {e.val : e \in {e \in store[k] : t \div 1000 < e.exp}}

\* kv.put(key, JSON.stringify(v), {expirationTtl: ttl})
KVPut(store, k, v, ttl, t) == [store EXCEPT ![k] = {[val |-> v, exp |-> (t \div 1000) + ttl]}]

\* kv.delete(key)
KVDelete(store, k) == [store EXCEPT ![k] = {}]

----------------------------------------------------------------------------
(* Results *)

\* load factors are kept in hundredths
FactorScale == 10 * 10

\* tokens and costs are real numbers; the model keeps them in sixths
TokenScale == 2 * 3

\* check(key, cost = 1): the default cost
CostOne == TokenScale

\* RateLimitResult; retryAfter and limiterName are optional: {} when absent
\* reset is a real number of milliseconds, kept as the fraction n / d
Result(op, allowed, remaining, limit, reset, retryAfter, cost, t) ==
    [op |-> op, allowed |-> allowed, remaining |-> remaining, limit |-> limit,
     reset |-> reset, retryAfter |-> retryAfter, limiterName |-> {}, cost |-> cost,
     at |-> t]

Rat(n, d) == [n |-> n, d |-> d]

\* the largest number of entries of lg in one half-open interval of length windowMs
InWindow(lg, j, windowMs) == {i \in 1..Len(lg) : lg[j] - windowMs < lg[i] /\ lg[i] <= lg[j]}
MaxPerWindow(lg, windowMs) ==
    IF lg = <<>> THEN 0
    ELSE LET counts == {Cardinality(InWindow(lg, j, windowMs)) : j \in 1..Len(lg)}
         IN CHOOSE c \in counts : \A d \in counts : d <= c

----------------------------------------------------------------------------
(* Configuration and the factory *)

\* RateLimitConfig; burst = 0 stands for an absent burst (config.burst || config.limit)
RateLimitConfig(strategy, limit, window, burstSize) ==
    [strategy |-> strategy, limit |-> limit, window |-> window, burst |-> burstSize]

\* new SlidingWindowLimiter(kv, limit, windowSeconds)
SlidingWindowLimiter(limit, windowSeconds) ==
    [kind |-> "sw", limit |-> limit, windowMs |-> windowSeconds * 1000]

\* new TokenBucketLimiter(kv, bucketSize, refillRatePerSecond), the rate being rateNum / rateDen
TokenBucketLimiter(bucketSize, rateNum, rateDen) ==
    [kind |-> "tb", bucketSize |-> bucketSize, rateNum |-> rateNum, rateDen |-> rateDen]

\* new LeakyBucketLimiter(kv, bucketSize, leakRatePerSecond), the rate being rateNum / rateDen
LeakyBucketLimiter(bucketSize, rateNum, rateDen) ==
    [kind |-> "lb", bucketSize |-> bucketSize, rateNum |-> rateNum, rateDen |-> rateDen]

createRateLimiter(c) ==
    CASE c.strategy = "sliding-window" -> SlidingWindowLimiter(c.limit, c.window)
      [] c.strategy = "token-bucket" ->
            TokenBucketLimiter(IF c.burst # 0 THEN c.burst ELSE c.limit, c.limit, c.window)
      [] c.strategy = "leaky-bucket" -> LeakyBucketLimiter(c.limit, c.limit, c.window)
      [] OTHER -> SlidingWindowLimiter(c.limit, c.window)

\* the limiter the run is about
Limiter == createRateLimiter(config)

\* the window the configuration names, in ms
WindowMs == config.window * 1000

----------------------------------------------------------------------------
(* SlidingWindowLimiter.check *)

SWInitial(t) == [count |-> 0, windowStart |-> t, lastUpdate |-> t, history |-> <<>>]

\* state.history.filter(t => t > cutoff)
SWFilterShort(history, cutoff) == SelectSeq(history, LAMBDA x : x > cutoff + 500)
SWFilter(history, cutoff) == SelectSeq(history, LAMBDA x : x > cutoff)

\* expirationTtl of the sliding-window record
SWTtl(lim) == CeilDiv(lim.windowMs, 1000) + 60

\* if (count >= this.limit)
SWOverLimitStrict(count, limit) == count > limit
SWOverLimit(count, limit) == count >= limit

\* one check at time t against the value `got` read from the store:
\* the result, and the state to put ({} when nothing is written)
SWEval(lim, got, t) ==
    LET state == IF got # {} THEN CHOOSE s \in got : TRUE ELSE SWInitial(t)
        cutoff == t - lim.windowMs
        history == SWFilter(state.history, cutoff)
        count == Len(history)
    IN  IF SWOverLimit(count, lim.limit)
        THEN LET oldestEntry == MinOf(history)
                 retryAfter == CeilDiv(oldestEntry + lim.windowMs - t, 1000)
             IN  [result |-> Result("sw", FALSE, 0, lim.limit, Rat(oldestEntry + lim.windowMs, 1),
                                    {Max(1, retryAfter)}, CostOne, t),
                  put |-> {}]
        ELSE LET pushed == Append(history, t)
             IN  [result |-> Result("sw", TRUE, lim.limit - Len(pushed), lim.limit,
                                    Rat(t + lim.windowMs, 1), {}, CostOne, t),
                  put |-> {[state EXCEPT !.history = pushed, !.lastUpdate = t]}]

----------------------------------------------------------------------------
(* TokenBucketLimiter.check *)

\* the costs the checks of the model pass: 1 / loadFactor for the load factors 2.0, 1.0 and 0.5
Costs == {CostOne \div 2, CostOne, 2 * CostOne}

\* Points <<rateNum, rateDen, elapsed>> at which the binary64 evaluation of
\* elapsed / (1000 / (rateNum / rateDen)) falls below the integer the exact
\* quotient equals: 1000 / 55 is 18.181818181818183, and
\* 200 / 18.181818181818183 is 10.999999999999998. All such points with
\* elapsed up to 10 s, for the rates of BurstConfigs (the rates 1 and 2 have none).
RoundsBelow ==
    {<<55, 1, e>> : e \in {200, 400, 800, 1000, 1600, 1800, 2000, 2200}
                          \cup {200 * k : k \in 15..23} \cup {200 * k : k \in 30..46}}

\* Math.floor(elapsed / this.refillInterval), refillInterval = 1000 / refillRatePerSecond
Refill(lim, elapsed) ==
    LET exact == FloorDiv(elapsed * lim.rateNum, 1000 * lim.rateDen)
    IN  IF <<lim.rateNum, lim.rateDen, elapsed>> \in RoundsBelow THEN exact - 1 ELSE exact

\* expirationTtl of the token-bucket and leaky-bucket records
BucketTtl == 3600

\* Math.min(this.bucketSize, (stateData.tokens || 0) + refill)
TBTokensUncapped(size, stored, refill) == stored + refill
TBTokens(size, stored, refill) == Min(size, stored + refill)

\* Binary64 arithmetic on token counts. A count is kept as the pair of its
\* nominal value n (in sixths) and the error e of the binary64 number against
\* n / 6, in units of 2^-55 / 3 (one sixth is 2^54 units): costs that are
\* multiples of 1/2 are exact, and 1 / 0.75 is the double 8 units below 4/3.
Pow2(k) == 2 ^ k

\* the exponent k with 2^k <= v < 2^(k + 1), for v >= 1
Log2Floor(v) == CHOOSE k \in 0..30 : Pow2(k) <= v /\ v \div 2 < Pow2(k)

\* the exponent k with 2^k <= n / 6 + e < 2^(k + 1), for n >= 1
Binade(n, e) ==
    LET k == IF n >= TokenScale THEN Log2Floor(n \div TokenScale)
             ELSE IF n >= 3 THEN -1 ELSE IF n = 2 THEN -2 ELSE -3
        power == (n >= TokenScale /\ n = TokenScale * Pow2(k)) \/ n = 3
    IN  IF power /\ e < 0 THEN k - 1 ELSE k

\* the error after rounding n / 6 + e to the nearest double, ties to even:
\* doubles of binade k are the multiples of 3 * 2^(k + 3) units, and 2^54
\* units are 2^(k + 4) * (2^(50 - k) mod 3) modulo twice that
Nearest(e, m, r2) ==
    LET r == r2 % m
    IN  IF r = 0 THEN e
        ELSE IF 2 * r < m THEN e - r
        ELSE IF 2 * r > m THEN e + (m - r)
        ELSE IF r2 >= m THEN e + (m - r) ELSE e - r

RoundErr(n, e) ==
    IF n = 0 THEN e
    ELSE CHOOSE x \in {Nearest(err, 3 * Pow2(k + 3),
                               (Pow2(k + 4) * ((n * (IF (50 - k) % 2 = 1 THEN 2 ELSE 1)) % 3) + err)
                                   % (6 * Pow2(k + 3)))
                           : err \in {e}, k \in {Binade(n, e)}} : TRUE

\* the error of the double a cost is: 1 / 0.75 = 1.3333333333333333
CostErr(cost) == IF cost = (4 * TokenScale) \div 3 THEN -8 ELSE 0

\* Math.floor(tokens)
FloorTokens(n, e) ==
    IF n % TokenScale = 0 /\ e < 0 THEN n \div TokenScale - 1 ELSE n \div TokenScale

\* the tokens the bucket holds at t: the stored ones plus the refill, capped
TBHave(lim, got, t) ==
    LET size == lim.bucketSize * TokenScale
    IN  IF got # {}
        THEN LET stateData == CHOOSE s \in got : TRUE
                 elapsed == t - stateData.lastUpdate
                 refill == Refill(lim, elapsed)
                 sum == stateData.tokens + refill * TokenScale
                 sumErr == RoundErr(sum, stateData.err)
                 capped == TBTokens(size, stateData.tokens, refill * TokenScale)
             IN  [tokens |-> capped,
                  err |-> IF capped # sum \/ (sum = size /\ sumErr > 0) THEN 0 ELSE sumErr]
        ELSE [tokens |-> size, err |-> 0]

\* the decision on a bucket holding tokens (with binary64 error err) at t
TBDecide(lim, tokens, err, t, cost) ==
    IF tokens < cost \/ (tokens = cost /\ err < CostErr(cost))
    THEN LET tokensNeeded == cost - tokens
             neededErr == RoundErr(tokensNeeded, CostErr(cost) - err)
             \* Math.ceil(tokensNeeded * this.refillInterval)
             exact == tokensNeeded * 1000 * lim.rateDen
             per == TokenScale * lim.rateNum
             refillTime == CeilDiv(exact, per) + (IF neededErr > 0 /\ exact % per = 0 THEN 1 ELSE 0)
         IN  [result |-> Result("tb", FALSE, FloorTokens(tokens, err), lim.bucketSize,
                                Rat(t + refillTime, 1), {CeilDiv(refillTime, 1000)}, cost, t),
              put |-> {}]
    ELSE LET left == tokens - cost
         IN  CHOOSE out \in
                 {[result |-> Result("tb", TRUE, FloorTokens(left, leftErr), lim.bucketSize,
                                     Rat(t * lim.rateNum + 1000 * lim.rateDen, lim.rateNum), {}, cost, t),
                   put |-> {[tokens |-> left, err |-> leftErr, lastUpdate |-> t]}]
                  : leftErr \in {RoundErr(left, err - CostErr(cost))}} : TRUE

TBEval(lim, got, t, cost) ==
    CHOOSE out \in {TBDecide(lim, have.tokens, have.err, t, cost) : have \in {TBHave(lim, got, t)}} : TRUE

----------------------------------------------------------------------------
(* LeakyBucketLimiter.check *)

\* the water level is a real number; the model keeps it in units of
\* 1 / LevelScale, in which elapsed * leakRate is the integer elapsedMs * rateNum
LevelScale(lim) == 1000 * lim.rateDen

\* Math.max(0, (stateData.count || 0) - leaked)
LBLevelUnfloored(count, leaked) == count - leaked
LBLevel(count, leaked) == Max(0, count - leaked)

LBEval(lim, got, t) ==
    LET unit == LevelScale(lim)
        size == lim.bucketSize * unit
        waterLevel == IF got # {}
                      THEN LET stateData == CHOOSE s \in got : TRUE
                               leaked == (t - stateData.lastUpdate) * lim.rateNum
                           IN  LBLevel(stateData.count, leaked)
                      ELSE 0
    IN  IF waterLevel >= size
        THEN LET overflowAmount == waterLevel - size + unit
                 \* drainTime = overflowAmount / leakRate seconds, as the fraction dn / dd
                 dn == overflowAmount * lim.rateDen
                 dd == unit * lim.rateNum
             IN  [result |-> Result("lb", FALSE, 0, lim.bucketSize, Rat(t * dd + dn * 1000, dd),
                                    {CeilDiv(dn, dd)}, CostOne, t),
                  put |-> {}]
        ELSE LET added == waterLevel + unit
             IN  [result |-> Result("lb", TRUE, FloorDiv(size - added, unit), lim.bucketSize,
                                    Rat(t * lim.rateNum + 1000 * lim.rateDen, lim.rateNum), {}, CostOne, t),
                  put |-> {[count |-> added, lastUpdate |-> t]}]

----------------------------------------------------------------------------
(* The configurations the runs draw from *)

SWConfigs == {RateLimitConfig("sliding-window", l, w, 0) : l \in {1, 2}, w \in {1, 2}}

TBConfigs == {RateLimitConfig("token-bucket", 1, 1, 0), RateLimitConfig("token-bucket", 2, 2, 0),
              RateLimitConfig("token-bucket", 2, 1, 0), RateLimitConfig("token-bucket", 1, 1, 2)}

\* token buckets whose window is half the expirationTtl of their record, the
\* longest the amended C2 speaks of, and one whose window is the whole of it
SlowConfigs == {RateLimitConfig("token-bucket", 1, BucketTtl \div 2, 0),
                RateLimitConfig("token-bucket", 2, BucketTtl \div 2, 0),
                RateLimitConfig("token-bucket", 1, BucketTtl, 0)}

\* the token buckets of the runs about bursts: those, and one of 11 tokens
\* refilled at 55 per second
BurstConfigs == TBConfigs \cup {RateLimitConfig("token-bucket", 55, 1, 11)}

LBConfigs == {RateLimitConfig("leaky-bucket", l, w, 0) : l \in {1, 2}, w \in {1, 2}}

\* the clock advances by one of these, in ms
Steps == {500, 1000}

\* the variables of the racy and composite models and of the quota model, idle
Idle ==
    /\ burst = -1
    /\ pc = [w \in Workers |-> "idle"]
    /\ snap = [w \in Workers |-> {}]
    /\ tally = [w \in Workers |-> [overlapped |-> 0, flagged |-> FALSE]]
    /\ members = <<>>
    /\ probed = <<>>
    /\ prev = {}
    /\ startDay = 0
    /\ loadFactor = FactorScale
    /\ metrics = <<>>
    /\ recorded = <<>>
    /\ cleared = 0
    /\ twin = {}
    /\ unexpiring = EmptyKV
    /\ health = [completed |-> 0, failures |-> 0]
    /\ calls = [w \in Workers |-> {}]
    /\ healthChecks = [u \in Upstreams |-> {}]

InitLimiter(configs) ==
    /\ now = 0
    /\ config \in configs
    /\ kv = EmptyKV
    /\ last = {}
    /\ log = <<>>
    /\ Idle

\* the clock advances
Tick ==
    /\ \E d \in Steps :
          /\ now + d <= MaxSeconds * 1000
          /\ \A w \in Workers : \A s \in snap[w] : now + d - s.at <= MaxLatencyTicks * 500
          /\ now' = now + d
    /\ burst' = -1
    /\ UNCHANGED <<startDay, config, cleared, twin, unexpiring, health, calls, healthChecks, metrics, recorded, kv, last, log, pc, snap, tally, members, probed, prev, loadFactor>>

----------------------------------------------------------------------------
(* One check: Date.now(), then await kv.get, then (when allowed) await    *)
(* kv.put. Each await is a point at which the clock and other callers'     *)
(* operations on the store may come in between.                            *)

\* the store after a check: the put, when the check makes one
Stored(store, k, e, ttl, t) ==
    IF e.put # {} THEN KVPut(store, k, CHOOSE s \in e.put : TRUE, ttl, t) ELSE store

\* the storage key of a limiter: its prefix
KeyOf(lim) == CASE lim.kind = "sw" -> KeySW [] lim.kind = "tb" -> KeyTB [] lim.kind = "lb" -> KeyLB

\* the expirationTtl a limiter writes its record with
TtlOf(lim) == IF lim.kind = "sw" THEN SWTtl(lim) ELSE BucketTtl

\* kv.get on a namespace that never expires records
KVGetUnexpiring(store, k) == {e.val : e \in store[k]}

\* limiter.check(key, cost) from the line after the kv.get on: the decision
\* on what the store returned, for the Date.now() t read before the get
LimiterEval(lim, got, t, cost) ==
    CASE lim.kind = "sw" -> SWEval(lim, got, t)
      [] lim.kind = "tb" -> TBEval(lim, got, t, cost)
      [] lim.kind = "lb" -> LBEval(lim, got, t)

\* a check that has read Date.now() = t and awaits its kv.get
Pending(t, cost) == [at |-> t, cost |-> cost, out |-> {}, twin |-> {}]

\* the check s of limiter lim once the store serves its get at time t: what
\* it decides, and what the same check decides on the twin namespace that
\* never expires records
Decided(lim, s, store, twinStore, t) ==
    LET got == KVGet(store, KeyOf(lim), t)
        twinGot == KVGetUnexpiring(twinStore, KeyOf(lim))
    IN  CHOOSE d \in {[s EXCEPT !.out = {e},
                                !.twin = {IF twinGot = got THEN e
                                          ELSE LimiterEval(lim, twinGot, s.at, s.cost)}]
                         : e \in {LimiterEval(lim, got, s.at, s.cost)}} : TRUE

\* the callers other than w that have a call in flight
InFlight(w) == {u \in Workers \ {w} : pc[u] # "idle"}

\* every caller is between calls
AllIdle == \A w \in Workers : pc[w] = "idle"

\* the tallies after worker w starts a call: it overlaps every call in flight
\* (overlaps are counted up to two)
Started(w) ==
    [u \in Workers |->
        IF u = w
        THEN [overlapped |-> Min(2, tally[u].overlapped + (IF InFlight(w) # {} THEN 1 ELSE 0)),
              flagged |-> InFlight(w) # {}]
        ELSE IF u \in InFlight(w) /\ ~tally[u].flagged
             THEN [overlapped |-> Min(2, tally[u].overlapped + 1), flagged |-> TRUE]
             ELSE tally[u]]

\* lg, kept in time order, with t
Inserted(lg, t) ==
    LET before == SelectSeq(lg, LAMBDA x : x <= t)
        after == SelectSeq(lg, LAMBDA x : x > t)
    IN  before \o <<t>> \o after

\* the earliest Date.now() among t and the calls in flight
EarliestInFlight(t) ==
    LET ats == {t} \cup UNION {{s.at : s \in snap[u]} : u \in Workers}
    IN  CHOOSE a \in ats : \A b \in ats : a <= b

\* the observer's record after a check of Date.now() = t was allowed
Counted(lg, t) == Inserted(SelectSeq(lg, LAMBDA x : x > EarliestInFlight(t) - WindowMs), t)

\* the observer counts the allowed cost-1 checks; those of a token bucket
\* when its size is the limit
Observes(e) ==
    e.result.allowed /\ e.result.cost = CostOne /\ (Limiter.kind = "tb" => config.burst = 0)

\* the burst count after a cost-1 check of a burst returns
BurstAfter(cost) ==
    IF Limiter.kind = "tb" /\ burst >= 0 /\ burst < Limiter.bucketSize /\ cost = CostOne
    THEN burst + 1 ELSE -1

\* check(key, cost) is called: lines 67, 143, 218 read Date.now(), and the
\* call awaits kv.get (lines 71, 147, 221)
CheckCall(w, cost) ==
    /\ pc[w] = "idle"
    /\ cost # CostOne => Limiter.kind = "tb"
    /\ pc' = [pc EXCEPT ![w] = "called"]
    /\ snap' = [snap EXCEPT ![w] = {Pending(now, cost)}]
    /\ tally' = Started(w)
    /\ UNCHANGED <<now, startDay, config, cleared, kv, last, log, burst, members, probed, prev, loadFactor,
                   metrics, recorded, healthChecks, calls, health, unexpiring, twin>>

\* the store serves the get: the check decides; a denial returns here
\* (lines 87-98, 163-176, 236-246), an allowed check goes on to await kv.put
CheckGet(w) ==
    /\ pc[w] = "called"
    /\ \E s \in snap[w] : \E d \in {Decided(Limiter, s, kv, unexpiring, now)} :
       \E e \in d.out : \E u \in d.twin :
           IF e.put # {}
           THEN /\ pc' = [pc EXCEPT ![w] = "got"]
                /\ snap' = [snap EXCEPT ![w] = {d}]
                /\ UNCHANGED <<last, twin, unexpiring, burst>>
           ELSE /\ pc' = [pc EXCEPT ![w] = "idle"]
                /\ snap' = [snap EXCEPT ![w] = {}]
                /\ last' = {e.result}
                /\ twin' = {u.result}
                /\ unexpiring' = Stored(unexpiring, KeyOf(Limiter), u, TtlOf(Limiter), now)
                /\ burst' = BurstAfter(s.cost)
    /\ UNCHANGED <<now, startDay, config, cleared, kv, log, tally, members, probed, prev, loadFactor,
                   metrics, recorded, healthChecks, calls, health>>

\* the put lands (lines 104-107, 179-184, 249-254) and the check returns its
\* allowed result
CheckPut(w) ==
    /\ pc[w] = "got"
    /\ \E s \in snap[w] : \E e \in s.out : \E u \in s.twin :
           /\ kv' = Stored(kv, KeyOf(Limiter), e, TtlOf(Limiter), now)
           /\ unexpiring' = Stored(unexpiring, KeyOf(Limiter), u, TtlOf(Limiter), now)
           /\ last' = {e.result}
           /\ twin' = {u.result}
           /\ log' = IF Observes(e) THEN Counted(log, s.at) ELSE log
           /\ burst' = BurstAfter(s.cost)
    /\ pc' = [pc EXCEPT ![w] = "idle"]
    /\ snap' = [snap EXCEPT ![w] = {}]
    /\ UNCHANGED <<now, startDay, config, cleared, tally, members, probed, prev, loadFactor,
                   metrics, recorded, healthChecks, calls, health>>

\* the get and the put of the checks in flight
CheckSteps == \E w \in Workers : CheckGet(w) \/ CheckPut(w)

\* serialised access: a check is called when no call is in flight
SerialCall(cost) == AllIdle /\ CheckCall(1, cost)

InitSW == InitLimiter(SWConfigs)
NextSW == SerialCall(CostOne) \/ CheckSteps \/ Tick
SpecSW == InitSW /\ [][NextSW]_vars

\* the shortest quiescent period that refills a whole bucket: bucketSize / refillRate seconds, in ms
QuietMs(lim) == CeilDiv(lim.bucketSize * 1000 * lim.rateDen, lim.rateNum)

\* no check for at least bucketSize / refillRate seconds
Quiet ==
    /\ Limiter.kind = "tb"
    /\ AllIdle
    /\ last # {}
    /\ now <= MaxSeconds * 1000
    /\ \E extra \in {0, 500} : now' = now + QuietMs(Limiter) + extra
    /\ burst' = 0
    /\ UNCHANGED <<startDay, config, cleared, twin, unexpiring, health, calls, healthChecks, metrics, recorded, kv, last, log, pc, snap, tally, members, probed, prev, loadFactor>>

\* this.refillInterval = 1000 / refillRatePerSecond: the time one token takes, in ms
RefillMs(lim) == CeilDiv(1000 * lim.rateDen, lim.rateNum)

\* the clock of a slow bucket advances by refill intervals until the first
\* seconds and MaxDrips refill intervals are over, and the record then
\* stored may expire
SlowHorizon(lim) == MaxSeconds * 1000 + MaxDrips * RefillMs(lim)

\* no check for one refill interval of a bucket whose tokens take longer
\* than the steps of the clock
Drip ==
    /\ Limiter.kind = "tb"
    /\ AllIdle
    /\ RefillMs(Limiter) \notin Steps
    /\ now + RefillMs(Limiter) <= SlowHorizon(Limiter)
    /\ now' = now + RefillMs(Limiter)
    /\ burst' = -1
    /\ UNCHANGED <<startDay, config, cleared, twin, unexpiring, health, calls, healthChecks, metrics, recorded, kv, last, log, pc, snap, tally, members, probed, prev, loadFactor>>

\* no check on a slow bucket until the expirationTtl of the stored record
\* has run out
Expire ==
    /\ Limiter.kind = "tb"
    /\ AllIdle
    /\ RefillMs(Limiter) \notin Steps
    /\ \E e \in kv[KeyTB] :
          /\ now < e.exp * 1000
          /\ e.exp * 1000 <= SlowHorizon(Limiter) + BucketTtl * 1000
          /\ now' = e.exp * 1000
    /\ burst' = -1
    /\ UNCHANGED <<startDay, config, cleared, twin, unexpiring, health, calls, healthChecks, metrics, recorded, kv, last, log, pc, snap, tally, members, probed, prev, loadFactor>>

InitTB == InitLimiter(TBConfigs \cup SlowConfigs)
NextTB == (\E cost \in Costs : SerialCall(cost)) \/ CheckSteps \/ Tick \/ Quiet \/ Drip \/ Expire
SpecTB == InitTB /\ [][NextTB]_vars

InitBurst == InitLimiter(BurstConfigs)
NextBurst == (\E cost \in Costs : SerialCall(cost)) \/ CheckSteps \/ Tick \/ Quiet
SpecBurst == InitBurst /\ [][NextBurst]_vars

InitLB == InitLimiter(LBConfigs)
NextLB == SerialCall(CostOne) \/ CheckSteps \/ Tick
SpecLB == InitLB /\ [][NextLB]_vars

----------------------------------------------------------------------------
(* Claims about the serialised limiters *)

Denied == \E r \in last : ~r.allowed
Allowed == \E r \in last : r.allowed

\* C1: under serialised access a SlidingWindowLimiter(limit, windowSeconds)
\* returns allowed=true at most limit times in every half-open interval of
\* windowSeconds * 1000 ms, for checks at non-decreasing times.
C1_SlidingWindowAtMostLimit == MaxPerWindow(log, WindowMs) <= Limiter.limit

\* a full window built from checks at two different instants, and a denial
C1_Witness ==
    /\ Limiter.kind = "sw" /\ Limiter.limit = 2
    /\ Len(log) = 2 /\ log[1] < log[2]
    /\ Denied

\* C2 as claimed: a token bucket built by the factory from {limit, window}
\* allows at most limit cost-1 checks in any interval of window seconds.
C2_TokenBucketAtMostLimit ==
    (Limiter.kind = "tb" /\ config.burst = 0) => MaxPerWindow(log, WindowMs) <= config.limit

\* C2 amended: such a bucket with a window of at most 1800 s, half the
\* expirationTtl of its record, allows at most 2 * limit - 1 cost-1 checks
\* in any interval of window seconds: a full bucket of limit tokens plus the
\* limit - 1 tokens that refill strictly inside the interval. A record that
\* expires leaves a full bucket, which by then the refill gives as well.
C2_TokenBucketAtMostTwiceLimit ==
    (Limiter.kind = "tb" /\ config.burst = 0 /\ 2 * config.window <= BucketTtl)
        => MaxPerWindow(log, WindowMs) <= 2 * config.limit - 1

\* the bound is reached with the longest window, 2 * limit - 1 allowed
\* checks in one window of 1800 s, limit >= 2; the record of the last of
\* them has expired since, and the next cost-1 check is allowed on a full
\* bucket
C2_Witness ==
    /\ Limiter.kind = "tb" /\ config.burst = 0 /\ config.limit >= 2
    /\ 2 * config.window = BucketTtl
    /\ MaxPerWindow(log, WindowMs) = 2 * config.limit - 1
    /\ kv[KeyTB] # {} /\ KVGet(kv, KeyTB, now) = {}
    /\ pc[1] = "got"
    /\ \E s \in snap[1] : \E e \in s.out :
           e.result.allowed /\ e.result.cost = CostOne /\ e.result.remaining = config.limit - 1

\* C3 as claimed: a leaky bucket built by the factory from {limit, window}
\* allows at most limit checks in any interval of window seconds.
C3_LeakyBucketAtMostLimit ==
    Limiter.kind = "lb" => MaxPerWindow(log, WindowMs) <= config.limit

\* C3 amended: such a bucket allows at most 2 * limit checks in any interval
\* of window seconds: the level may rise to just under limit + 1 and less
\* than limit leaks away inside the interval.
C3_LeakyBucketAtMostTwiceLimit ==
    Limiter.kind = "lb" => MaxPerWindow(log, WindowMs) <= 2 * config.limit

\* the bound is reached
C3_Witness ==
    /\ Limiter.kind = "lb" /\ config.limit >= 2
    /\ MaxPerWindow(log, WindowMs) = 2 * config.limit

----------------------------------------------------------------------------
(* Racy access: several workers call SlidingWindowLimiter.check on one key; *)
(* their gets and puts and the clock interleave freely.                    *)

RaceConfigs ==
    {RateLimitConfig("sliding-window", l, 1, 0) : l \in {1, 2}}
        \cup {RateLimitConfig("token-bucket", 1, 1, 0), RateLimitConfig("leaky-bucket", 1, 1, 0)}

\* the clock advances, also between the steps of a check
RaceTick ==
    /\ now + 500 <= MaxRaceTicks * 500
    /\ now' = now + 500
    /\ UNCHANGED <<startDay, config, cleared, twin, unexpiring, health, calls, healthChecks, metrics, recorded, kv, last, log, burst, pc, snap, tally, members, probed, prev, loadFactor>>

InitRace == InitLimiter(RaceConfigs)
NextRace == (\E w \in Workers : CheckCall(w, CostOne)) \/ CheckSteps \/ RaceTick
SpecRace == InitRace /\ [][NextRace]_vars

\* C4 as claimed: with N workers checking one key concurrently, at most
\* limit + (N - 1) checks are allowed in any interval of windowSeconds.
C4_RacyAtMostLimitPlusWorkers ==
    Limiter.kind = "sw" => MaxPerWindow(log, WindowMs) <= Limiter.limit + (NumWorkers - 1)

\* C4 amended: when every worker has at most one check that overlaps another
\* worker's check (all its other checks being serialised), at most
\* limit + (N - 1) checks, counted at their Date.now(), are allowed in any
\* interval of windowSeconds.
C4_OneOverlapEachAtMostLimitPlusWorkers ==
    (Limiter.kind = "sw" /\ \A w \in Workers : tally[w].overlapped <= 1)
        => MaxPerWindow(log, WindowMs) <= Limiter.limit + (NumWorkers - 1)

\* the bound is reached after every worker raced once
C4_Witness ==
    /\ Limiter.kind = "sw" /\ Limiter.limit = 2
    /\ \A w \in Workers : tally[w].overlapped = 1 /\ pc[w] = "idle"
    /\ MaxPerWindow(log, WindowMs) = Limiter.limit + (NumWorkers - 1)

----------------------------------------------------------------------------
(* CompositeRateLimiter *)

\* the limiters a composite is built from, by name
MemberPools ==
    {[sw |-> SlidingWindowLimiter(l, 1), tb |-> TokenBucketLimiter(2, 1, 1), lb |-> LeakyBucketLimiter(1, 1, 1)]
        : l \in {1, 2}}

MemberNames == {"sw", "tb", "lb"}

Priorities == {0, 1}

\* this.limiters.sort((a, b) => b.priority - a.priority): a stable sort,
\* highest priority first
RECURSIVE SortByPriority(_)
SortByPriority(ms) ==
    IF ms = <<>> THEN <<>>
    ELSE LET top == CHOOSE p \in {ms[i].priority : i \in 1..Len(ms)} :
                        \A i \in 1..Len(ms) : ms[i].priority <= p
         IN  SelectSeq(ms, LAMBDA m : m.priority = top)
                \o SortByPriority(SelectSeq(ms, LAMBDA m : m.priority # top))

\* add(name, limiter, priority): nothing stops a name from being added twice
Add(name, priority) ==
    /\ members' = SortByPriority(Append(members, [name |-> name, limiter |-> config[name], priority |-> priority]))
    /\ UNCHANGED <<now, startDay, config, cleared, twin, unexpiring, health, calls, healthChecks, metrics, recorded, kv, last, log, burst, pc, snap, tally, probed, prev, loadFactor>>

\* the member check a composite check starts: the member's check reads
\* Date.now() and awaits kv.get
MemberCall(m, inLoop, seen, t) ==
    [at |-> t, member |-> m, inLoop |-> inLoop, seen |-> seen, out |-> {}]

\* CompositeRateLimiter.check(key) is called: the loop of line 425 starts the
\* check of the first member (on an empty composite line 434 throws a
\* TypeError: no result, no change of state)
CompositeCall(w) ==
    /\ pc[w] = "idle"
    /\ members # <<>>
    /\ pc' = [pc EXCEPT ![w] = "called"]
    /\ snap' = [snap EXCEPT ![w] = {MemberCall(members[1], TRUE, <<>>, now)}]
    /\ tally' = Started(w)
    /\ UNCHANGED <<now, startDay, config, cleared, kv, last, log, burst, members, probed, prev, loadFactor,
                   metrics, recorded, healthChecks, calls, health, unexpiring, twin>>

\* the store serves the get of the member check in flight: a denial in the
\* loop returns with the member's name (lines 427-429), a denial of the
\* check after the loop returns as it is (line 434)
CompositeGet(w) ==
    /\ pc[w] = "called"
    /\ \E s \in snap[w] :
       \E e \in {LimiterEval(s.member.limiter, KVGet(kv, KeyOf(s.member.limiter), now), s.at, CostOne)} :
       \E seen \in {Append(s.seen, [name |-> s.member.name, priority |-> s.member.priority,
                                    allowed |-> e.result.allowed, inLoop |-> s.inLoop])} :
           IF e.put # {}
           THEN /\ pc' = [pc EXCEPT ![w] = "got"]
                /\ snap' = [snap EXCEPT ![w] = {[s EXCEPT !.out = {e}, !.seen = seen]}]
                /\ UNCHANGED <<last, probed>>
           ELSE /\ pc' = [pc EXCEPT ![w] = "idle"]
                /\ snap' = [snap EXCEPT ![w] = {}]
                /\ last' = {IF s.inLoop THEN [e.result EXCEPT !.limiterName = {s.member.name}]
                            ELSE e.result}
                /\ probed' = seen
    /\ UNCHANGED <<now, startDay, config, cleared, kv, log, burst, tally, members, prev, loadFactor,
                   metrics, recorded, healthChecks, calls, health, unexpiring, twin>>

\* the put of the member check lands and the member check returns allowed:
\* the loop goes on to the next entry of this.limiters; past the last entry
\* the last limiter is checked once more (lines 432-434), and the result of
\* that check is the result of the composite check
CompositePut(w) ==
    /\ pc[w] = "got"
    /\ \E s \in snap[w] : \E e \in s.out :
           /\ kv' = Stored(kv, KeyOf(s.member.limiter), e, TtlOf(s.member.limiter), now)
           /\ IF s.inLoop
              THEN LET i == Len(s.seen) + 1
                   IN  /\ pc' = [pc EXCEPT ![w] = "called"]
                       /\ snap' = [snap EXCEPT ![w] =
                              {IF i <= Len(members)
                               THEN MemberCall(members[i], TRUE, s.seen, now)
                               ELSE MemberCall(members[Len(members)], FALSE, s.seen, now)}]
                       /\ UNCHANGED <<last, probed>>
              ELSE /\ pc' = [pc EXCEPT ![w] = "idle"]
                   /\ snap' = [snap EXCEPT ![w] = {}]
                   /\ last' = {e.result}
                   /\ probed' = s.seen
    /\ UNCHANGED <<now, startDay, config, cleared, log, burst, tally, members, prev, loadFactor,
                   metrics, recorded, healthChecks, calls, health, unexpiring, twin>>

\* the clock advances by half a second, also while checks are in flight
CompositeTick ==
    /\ now + 500 <= MaxCompositeTicks * 500
    /\ now' = now + 500
    /\ UNCHANGED <<startDay, config, cleared, twin, unexpiring, health, calls, healthChecks, metrics, recorded, kv, last, log, burst, pc, snap, tally, members, probed, prev, loadFactor>>

InitComposite ==
    /\ now = 0
    /\ config \in MemberPools
    /\ kv = EmptyKV
    /\ last = {}
    /\ log = <<>>
    /\ Idle

\* the runs build the composite first and check it afterwards
NextComposite ==
    \/ \E name \in MemberNames, priority \in Priorities :
           Len(members) < MaxMembers /\ AllIdle /\ last = {} /\ Add(name, priority)
    \/ \E w \in Workers : CompositeCall(w) \/ CompositeGet(w) \/ CompositePut(w)
    \/ CompositeTick
SpecComposite == InitComposite /\ [][NextComposite]_vars

\* the member checks of the most recent composite check that denied
Deniers == {i \in 1..Len(probed) : ~probed[i].allowed}
FirstDenier == CHOOSE i \in Deniers : \A j \in Deniers : i <= j

\* the members are consulted in descending priority order
ConsultedByPriority ==
    \A i, j \in 1..Len(probed) : (i < j /\ probed[j].inLoop) => probed[i].priority >= probed[j].priority

\* C5: CompositeRateLimiter.check consults its members in descending priority
\* order whatever the order of the add calls; when some member denies, the
\* composite result is denied and names that member in limiterName, and no
\* member of lower priority is consulted.
C5_FirstDenialNamed ==
    \A r \in last :
        /\ ConsultedByPriority
        /\ Deniers # {} =>
              /\ ~r.allowed
              /\ r.limiterName = {probed[FirstDenier].name}
              /\ FirstDenier = Len(probed)

\* the part of C5 that is about the loop alone: a denial inside the loop is
\* returned at once under the member's name
DenialInLoopNamed ==
    \A r \in last :
        /\ ConsultedByPriority
        /\ \A i \in Deniers : probed[i].inLoop =>
              /\ ~r.allowed
              /\ r.limiterName = {probed[i].name}
              /\ i = Len(probed)

\* C6: when every member allows the request in the loop, the composite check
\* returns allowed=true; so every composite result with allowed=false
\* carries a limiterName.
C6_AllAllowMeansAllowed ==
    \A r \in last :
        /\ (\A i \in 1..Len(probed) : probed[i].inLoop => probed[i].allowed) => r.allowed
        /\ ~r.allowed => r.limiterName # {}

----------------------------------------------------------------------------
(* QuotaManager *)

MinuteMs == 60000
DayMs == 24 * 60 * MinuteMs

IsLeap(y) == (y % 4 = 0 /\ y % 100 # 0) \/ y % 400 = 0

DaysInMonth(y, m) ==
    CASE m \in {1, 3, 5, 7, 8, 10, 12} -> 31
      [] m \in {4, 6, 9, 11} -> 30
      [] OTHER -> IF IsLeap(y) THEN 29 ELSE 28

\* the date d days after the first of month m of year y
RECURSIVE DateFrom(_, _, _)
DateFrom(y, m, d) ==
    IF d < DaysInMonth(y, m) THEN <<y, m, d + 1>>
    ELSE DateFrom(IF m = 12 THEN y + 1 ELSE y, IF m = 12 THEN 1 ELSE m + 1, d - DaysInMonth(y, m))

\* now.toISOString().split('T')[0]: the UTC date YYYY-MM-DD, as <<year, month, day>>
Today(day0, t) == DateFrom(1970, 1, day0 + t \div DayMs)

\* today.slice(0, 7): YYYY-MM, as <<year, month>>
MonthOf(today) == <<today[1], today[2]>>

\* Math.floor(now.getTime() / 60000) * 60000, counted like the clock from midnight of startDay
MinuteTs(t) == (t \div MinuteMs) * MinuteMs

\* expirationTtl of the quota record: 86400 * 32
QuotaTtl == 86400 * 32

QuotaConfigs == {[perMinute |-> 2, daily |-> 3, monthly |-> 4],
                 [perMinute |-> 3, daily |-> 2, monthly |-> 5],
                 [perMinute |-> 1, daily |-> 1, monthly |-> 1]}

\* days the runs start on: 1970-01-30, 1970-01-31, 1970-12-31
StartDays == {29, 30, 364}

\* times of day the runs start at: 00:00 and 23:59
StartTimes == {0, DayMs - MinuteMs}

\* lines 295-310: the stored state, or a fresh one, with every counter whose
\* period identifier is not the current one reset
QuotaKeepStaleMinute(got, today, month, minuteTs) ==
    LET state == IF got # {} THEN CHOOSE q \in got : TRUE
                 ELSE [daily |-> [count |-> 0, date |-> today],
                       monthly |-> [count |-> 0, month |-> month],
                       minute |-> [count |-> 0, timestamp |-> minuteTs]]
    IN  [daily |-> IF state.daily.date # today THEN [count |-> 0, date |-> today] ELSE state.daily,
         monthly |-> IF state.monthly.month # month THEN [count |-> 0, month |-> month] ELSE state.monthly,
         minute |-> state.minute]
QuotaCurrent(got, today, month, minuteTs) ==
    LET state == IF got # {} THEN CHOOSE q \in got : TRUE
                 ELSE [daily |-> [count |-> 0, date |-> today],
                       monthly |-> [count |-> 0, month |-> month],
                       minute |-> [count |-> 0, timestamp |-> minuteTs]]
    IN  [daily |-> IF state.daily.date # today THEN [count |-> 0, date |-> today] ELSE state.daily,
         monthly |-> IF state.monthly.month # month THEN [count |-> 0, month |-> month] ELSE state.monthly,
         minute |-> IF state.minute.timestamp # minuteTs
                    THEN [count |-> 0, timestamp |-> minuteTs] ELSE state.minute]

\* lines 313-321: the exceeded quota, {} when none
ExceededDailyFirst(state, cfg) ==
    IF state.daily.count >= cfg.daily THEN {"daily"}
    ELSE IF state.minute.count >= cfg.perMinute THEN {"minute"}
    ELSE IF state.monthly.count >= cfg.monthly THEN {"monthly"}
    ELSE {}
Exceeded(state, cfg) ==
    IF state.minute.count >= cfg.perMinute THEN {"minute"}
    ELSE IF state.daily.count >= cfg.daily THEN {"daily"}
    ELSE IF state.monthly.count >= cfg.monthly THEN {"monthly"}
    ELSE {}

\* lines 324-326
IncrementedSkipsDaily(state) ==
    [state EXCEPT !.minute.count = @ + 1, !.monthly.count = @ + 1]
Incremented(state) ==
    [state EXCEPT !.minute.count = @ + 1, !.daily.count = @ + 1, !.monthly.count = @ + 1]

\* checkAndIncrement with the put moved out of the if: the state is persisted on denials too
QuotaEvalAlwaysPut(cfg, got, day0, t) ==
    LET today == Today(day0, t)
        month == MonthOf(today)
        minuteTs == MinuteTs(t)
        state == QuotaCurrent(got, today, month, minuteTs)
        exceededQuota == Exceeded(state, cfg)
        final == IF exceededQuota = {} THEN Incremented(state) ELSE state
    IN  [result |-> [op |-> "quota", allowed |-> exceededQuota = {},
                     quotas |-> [daily |-> [used |-> final.daily.count, limit |-> cfg.daily],
                                 monthly |-> [used |-> final.monthly.count, limit |-> cfg.monthly],
                                 minute |-> [used |-> final.minute.count, limit |-> cfg.perMinute]],
                     exceededQuota |-> exceededQuota, at |-> t],
         put |-> {final}]

\* QuotaManager.checkAndIncrement(userId) at time t: the result and the state to put
QuotaEval(cfg, got, day0, t) ==
    LET today == Today(day0, t)
        month == MonthOf(today)
        minuteTs == MinuteTs(t)
        state == QuotaCurrent(got, today, month, minuteTs)
        exceededQuota == Exceeded(state, cfg)
        final == IF exceededQuota = {} THEN Incremented(state) ELSE state
    IN  [result |-> [op |-> "quota", allowed |-> exceededQuota = {},
                     quotas |-> [daily |-> [used |-> final.daily.count, limit |-> cfg.daily],
                                 monthly |-> [used |-> final.monthly.count, limit |-> cfg.monthly],
                                 minute |-> [used |-> final.minute.count, limit |-> cfg.perMinute]],
                     exceededQuota |-> exceededQuota, at |-> t],
         put |-> IF exceededQuota = {} THEN {final} ELSE {}]

\* checkAndIncrement(userId) is called: lines 287-290 read the clock and
\* derive the period identifiers, and the call awaits kv.get (line 293)
CheckAndIncrementCall(w) ==
    /\ pc[w] = "idle"
    /\ pc' = [pc EXCEPT ![w] = "called"]
    /\ snap' = [snap EXCEPT ![w] = {[at |-> now, read |-> {}, out |-> {}]}]
    /\ tally' = Started(w)
    /\ UNCHANGED <<now, startDay, config, cleared, kv, last, log, burst, members, probed, prev, loadFactor,
                   metrics, recorded, healthChecks, calls, health, unexpiring, twin>>

\* the store serves the get: lines 295-321 reset the stale counters and
\* compare with the limits; a denial returns here, an allowed call has
\* incremented its copy of the state and awaits kv.put (line 328)
CheckAndIncrementGet(w) ==
    /\ pc[w] = "called"
    /\ \E s \in snap[w] : \E got \in {KVGet(kv, KeyQuota, now)} :
       \E e \in {QuotaEval(config, got, startDay, s.at)} :
           IF e.put # {}
           THEN /\ pc' = [pc EXCEPT ![w] = "got"]
                /\ snap' = [snap EXCEPT ![w] = {[s EXCEPT !.read = got, !.out = {e}]}]
                /\ UNCHANGED <<last, prev>>
           ELSE /\ pc' = [pc EXCEPT ![w] = "idle"]
                /\ snap' = [snap EXCEPT ![w] = {}]
                /\ last' = {e.result}
                /\ prev' = [call |-> last, read |-> got, stored |-> kv[KeyQuota],
                            wiped |-> prev.pending, pending |-> FALSE]
    /\ UNCHANGED <<now, startDay, config, cleared, kv, log, burst, tally, members, probed, loadFactor,
                   metrics, recorded, healthChecks, calls, health, unexpiring, twin>>

\* the put lands and the call returns its allowed result (lines 328-340)
CheckAndIncrementPut(w) ==
    /\ pc[w] = "got"
    /\ \E s \in snap[w] : \E e \in s.out :
           /\ kv' = Stored(kv, KeyQuota, e, QuotaTtl, now)
           /\ last' = {e.result}
           /\ prev' = [call |-> last, read |-> s.read, stored |-> kv[KeyQuota],
                       wiped |-> prev.pending, pending |-> FALSE]
    /\ pc' = [pc EXCEPT ![w] = "idle"]
    /\ snap' = [snap EXCEPT ![w] = {}]
    /\ UNCHANGED <<now, startDay, config, cleared, log, burst, tally, members, probed, loadFactor,
                   metrics, recorded, healthChecks, calls, health, unexpiring, twin>>

\* QuotaManager.resetQuota(userId)
ResetQuota ==
    /\ kv[KeyQuota] # {}
    /\ kv' = KVDelete(kv, KeyQuota)
    /\ prev' = [prev EXCEPT !.pending = TRUE]
    /\ UNCHANGED <<now, startDay, config, cleared, twin, unexpiring, health, calls, healthChecks, metrics, recorded, last, log, burst, pc, snap, tally, members, probed, loadFactor>>

\* the clock reaches the next minute (up to MaxQuotaMinutes past midnight)
\* or the same time of the next day
QuotaTick ==
    /\ \/ /\ ((now + MinuteMs) % DayMs) \div MinuteMs <= MaxQuotaMinutes
          /\ now' = now + MinuteMs
       \/ /\ now \div DayMs < MaxQuotaDays
          /\ now' = now + DayMs
    /\ UNCHANGED <<startDay, config, cleared, twin, unexpiring, health, calls, healthChecks, metrics, recorded, kv, last, log, burst, pc, snap, tally, members, probed, prev, loadFactor>>

InitQuota ==
    /\ now \in StartTimes
    /\ startDay \in StartDays
    /\ config \in QuotaConfigs
    /\ kv = EmptyKV
    /\ last = {}
    /\ log = <<>>
    /\ burst = -1
    /\ pc = [w \in Workers |-> "idle"]
    /\ snap = [w \in Workers |-> {}]
    /\ tally = [w \in Workers |-> [overlapped |-> 0, flagged |-> FALSE]]
    /\ members = <<>>
    /\ probed = <<>>
    /\ prev = [call |-> {}, read |-> {}, stored |-> {}, wiped |-> FALSE, pending |-> FALSE]
    /\ loadFactor = FactorScale
    /\ metrics = <<>>
    /\ recorded = <<>>
    /\ cleared = 0
    /\ twin = {}
    /\ unexpiring = EmptyKV
    /\ health = [completed |-> 0, failures |-> 0]
    /\ calls = [w \in Workers |-> {}]
    /\ healthChecks = [u \in Upstreams |-> {}]

\* serialised access: a call starts when no call is in flight
NextQuota ==
    \/ AllIdle /\ CheckAndIncrementCall(1)
    \/ \E w \in Workers : CheckAndIncrementGet(w) \/ CheckAndIncrementPut(w)
    \/ AllIdle /\ ResetQuota
    \/ QuotaTick
SpecQuota == InitQuota /\ [][NextQuota]_vars

\* the runs of concurrent callers start a minute before midnight
InitQuotaRace == InitQuota /\ now = DayMs - MinuteMs

\* the clock reaches the next minute
QuotaRaceTick ==
    /\ now + MinuteMs <= DayMs - MinuteMs + MaxRaceTicks * MinuteMs
    /\ now' = now + MinuteMs
    /\ UNCHANGED <<startDay, config, cleared, twin, unexpiring, health, calls, healthChecks, metrics, recorded, kv, last, log, burst, pc, snap, tally, members, probed, prev, loadFactor>>

\* concurrent callers: calls on the key interleave between their read and their write
NextQuotaRace ==
    \/ \E w \in Workers : CheckAndIncrementCall(w) \/ CheckAndIncrementGet(w) \/ CheckAndIncrementPut(w)
    \/ ResetQuota
    \/ QuotaRaceTick
SpecQuotaRace == InitQuotaRace /\ [][NextQuotaRace]_vars

\* the limit of a period
LimitOf(cfg, period) ==
    CASE period = "minute" -> cfg.perMinute [] period = "daily" -> cfg.daily [] period = "monthly" -> cfg.monthly

Periods == {"minute", "daily", "monthly"}

\* whether two instants lie in the same minute, day or month
SamePeriod(period, t1, t2) ==
    CASE period = "minute" -> MinuteTs(t1) = MinuteTs(t2)
      [] period = "daily" -> Today(startDay, t1) = Today(startDay, t2)
      [] period = "monthly" -> MonthOf(Today(startDay, t1)) = MonthOf(Today(startDay, t2))

\* what a counter read from the store is worth at time t: its count when
\* its period identifier is the current one, 0 otherwise
Carried(read, period, t) ==
    IF read = {} THEN 0
    ELSE LET q == CHOOSE x \in read : TRUE
         IN  CASE period = "minute" -> IF q.minute.timestamp = MinuteTs(t) THEN q.minute.count ELSE 0
               [] period = "daily" -> IF q.daily.date = Today(startDay, t) THEN q.daily.count ELSE 0
               [] period = "monthly" ->
                    IF q.monthly.month = MonthOf(Today(startDay, t)) THEN q.monthly.count ELSE 0

\* C7: after the resets of the counters whose period identifier changed,
\* checkAndIncrement denies exactly when a counter has reached its limit;
\* exceededQuota is the first such period in the order minute, daily,
\* monthly; a denial increments and writes nothing; an allow raises all
\* three counters by exactly 1.
C7_QuotaDecision ==
    \A r \in last :
        LET full == {p \in Periods : Carried(prev.read, p, r.at) >= LimitOf(config, p)}
        IN  /\ r.allowed <=> full = {}
            /\ r.exceededQuota = (IF "minute" \in full THEN {"minute"}
                                  ELSE IF "daily" \in full THEN {"daily"}
                                  ELSE IF "monthly" \in full THEN {"monthly"} ELSE {})
            /\ \A p \in Periods :
                  r.quotas[p].used = Carried(prev.read, p, r.at) + (IF r.allowed THEN 1 ELSE 0)
            /\ (~r.allowed /\ ~prev.pending) => kv[KeyQuota] = prev.stored
            /\ (r.allowed /\ ~prev.pending) =>
                  \A p \in Periods : Carried(KVGet(kv, KeyQuota, r.at), p, r.at) = r.quotas[p].used

\* a denial with the minute and the daily counter both at their limits: minute is reported
C7_Witness ==
    \E r \in last :
        /\ ~r.allowed /\ r.exceededQuota = {"minute"}
        /\ r.quotas.daily.used >= config.daily
        /\ prev.read # {}

\* C8 as claimed: within one period every allowed request raises the used
\* count by exactly 1, and the first call in a new minute, day or month
\* reports used = 1 for the period that rolled over, whatever the other
\* two counters hold.
C8_RolloverReportsOne ==
    \A r \in last, q \in prev.call :
        ~prev.wiped =>
            \A p \in Periods :
                IF SamePeriod(p, q.at, r.at)
                THEN r.allowed => r.quotas[p].used = q.quotas[p].used + 1
                ELSE r.quotas[p].used = 1

\* C8 amended: within one period every allowed request raises the used count
\* by exactly 1, and the first call in a new minute, day or month reports
\* used = 1 for the period that rolled over when the call is allowed, and
\* used = 0 when it is denied because another counter is at its limit.
C8_RolloverReportsOneIfAllowed ==
    \A r \in last, q \in prev.call :
        ~prev.wiped =>
            \A p \in Periods :
                IF SamePeriod(p, q.at, r.at)
                THEN r.allowed => r.quotas[p].used = q.quotas[p].used + 1
                ELSE r.quotas[p].used = (IF r.allowed THEN 1 ELSE 0)

\* the first call of a new minute is denied by the daily counter and reports minute.used = 0
C8_Witness ==
    \E r \in last, q \in prev.call :
        /\ ~prev.wiped
        /\ ~SamePeriod("minute", q.at, r.at) /\ SamePeriod("daily", q.at, r.at)
        /\ ~r.allowed /\ r.exceededQuota = {"daily"}
        /\ r.quotas.minute.used = 0

----------------------------------------------------------------------------
(* Claims about bursts and about the remaining count *)

\* C9: after any history of checks followed by at least bucketSize /
\* refillRate seconds with no check, the next bucketSize cost-1 checks of a
\* TokenBucketLimiter, issued at one instant, are all allowed (burst counts
\* the checks made at that instant since the quiescent period).
C9_BurstAfterQuiet ==
    (Limiter.kind = "tb" /\ burst >= 1) => Allowed

\* C10: every RateLimitResult has remaining >= 0.
C10_RemainingNonNegative ==
    \A r \in last : r.op \in {"sw", "tb", "lb"} => r.remaining >= 0

----------------------------------------------------------------------------
(* The three limiters behind one contract *)

InitLimiters == InitLimiter(SWConfigs \cup TBConfigs \cup LBConfigs)
NextLimiters == (\E cost \in Costs : SerialCall(cost)) \/ CheckSteps \/ Tick \/ Quiet
SpecLimiters == InitLimiters /\ [][NextLimiters]_vars

\* C11: for every check of a sliding-window, token-bucket or leaky-bucket
\* limiter, an allowed result carries no retryAfter and a denied result
\* carries a retryAfter of at least 1 second.
C11_RetryAfterIffDenied ==
    \A r \in last :
        r.op \in {"sw", "tb", "lb"} =>
            /\ r.allowed => r.retryAfter = {}
            /\ ~r.allowed => (r.retryAfter # {} /\ \A s \in r.retryAfter : s >= 1)

\* a token bucket denies a check that lacks half a token: the wait of 500 ms is reported as 1 s
C11_Witness ==
    \E r \in last :
        /\ r.op = "tb" /\ ~r.allowed /\ r.cost = CostOne \div 2
        /\ r.retryAfter = {1}
        /\ r.reset.n = (r.at + 500) * r.reset.d

----------------------------------------------------------------------------
(* createRateLimiter with strategy 'fixed-window' *)

FixedConfigs == {RateLimitConfig("fixed-window", l, w, 0) : l \in {1, 2}, w \in {1, 2}}

InitFixed == InitLimiter(FixedConfigs)
NextFixed == SerialCall(CostOne) \/ CheckSteps \/ Tick
SpecFixed == InitFixed /\ [][NextFixed]_vars

\* the start of the aligned window t lies in: floor(t / windowMs) * windowMs
AlignedStart(t, windowMs) == (t \div windowMs) * windowMs

\* the checks admitted in the aligned window of result r before r itself
AdmittedBefore(r) ==
    Cardinality({i \in 1..Len(log) : log[i] >= AlignedStart(r.at, WindowMs)})
        - (IF r.allowed THEN 1 ELSE 0)

\* C12: a limiter made by createRateLimiter with strategy 'fixed-window'
\* admits a request exactly when fewer than limit requests were admitted in
\* the current aligned window starting at floor(now / windowMs) * windowMs.
C12_FixedWindowSemantics ==
    config.strategy = "fixed-window" =>
        \A r \in last : r.allowed <=> AdmittedBefore(r) < config.limit

----------------------------------------------------------------------------
(* The gateway: the rateLimiter middleware on /api/* and the route handler *)

\* defaultConfig of the rateLimiter middleware
MwWindowMs == 60000
MwMax == 100
MwKeyPrefix == "rl:"

\* the request headers a run's client sends: an X-API-Key (possibly empty) or none, no CF-Connecting-IP
Request(apiKey) == [path |-> "/api/version", apiKey |-> apiKey, ip |-> {}]

\* a header value that counts as given in a condition or before ||: the
\* header is present and is not the empty string
Given(header) == header # {} /\ header # {""}

\* c.req.header('X-API-Key') || c.req.header('CF-Connecting-IP') || 'anonymous'
ClientId(req) ==
    IF Given(req.apiKey) THEN CHOOSE k \in req.apiKey : TRUE
    ELSE IF Given(req.ip) THEN CHOOSE a \in req.ip : TRUE
    ELSE "anonymous"

\* Math.floor(now / config.windowMs) * config.windowMs
MwWindowStart(t) == (t \div MwWindowMs) * MwWindowMs

\* `${config.keyPrefix}${clientId}:${windowStart}`
WindowKey(clientId, windowStart) == <<MwKeyPrefix, clientId, windowStart>>

\* Math.ceil(config.windowMs / 1000) + 60
MwTtl == CeilDiv(MwWindowMs, 1000) + 60

\* the value of ENVIRONMENT in the runs
Environment == "production"

\* the environments of the runs: the RATE_LIMIT binding present or not,
\* ENVIRONMENT, the keys of API_KEYS, and the X-API-Key the run's client
\* sends: one outside API_KEYS, none, or an empty one
GatewayEnvs ==
    {[kvConfigured |-> b, environment |-> Environment, apiKeys |-> ks[1], apiKey |-> ks[2]] :
        b \in BOOLEAN, ks \in {<<{"k1"}, {"bad"}>>, <<{}, {}>>, <<{}, {""}>>}}

\* the window starts the clock of a run can reach
MwWindows == {w * MwWindowMs : w \in 0..(MaxMwTicks \div 2)}

GatewayKeys == {WindowKey(c, w) : c \in {"bad", "anonymous"}, w \in MwWindows}

\* the response headers the middleware can set
HeaderNames == {"X-RateLimit-Limit", "X-RateLimit-Remaining", "X-RateLimit-Reset", "Retry-After"}
NoHeaders == [h \in HeaderNames |-> {}]

\* the three c.header calls of the middleware
RateLimitHeaders(limit, remaining, reset) ==
    [NoHeaders EXCEPT !["X-RateLimit-Limit"] = {limit},
                      !["X-RateLimit-Remaining"] = {remaining},
                      !["X-RateLimit-Reset"] = {reset}]

\* if (count >= config.max)
MwOverLimitStrict(count, max) == count > max
MwOverLimit(count, max) == count >= max

\* the catch block: the error is logged and the request goes on to next();
\* after: the await the middleware came out of
MwCatchDeny(after) ==
    [next |-> FALSE, headers |-> NoHeaders,
     response |-> {[status |-> 500, body |-> [error |-> "Internal Server Error"]]}, put |-> {},
     caught |-> TRUE, after |-> after]
MwCatch(after) ==
    [next |-> TRUE, headers |-> NoHeaders, response |-> {}, put |-> {}, caught |-> TRUE, after |-> after]

\* rateLimiter(c, next) for a request that read Date.now() = t (line 36) and
\* to which kv.get returns `got`; fault says which KV operation throws when
\* it is served. next: whether next() is called; response: the response
\* returned instead; put: the counter kv.put stores ({} when none is
\* stored); caught: whether the catch block ran; after: the await the
\* middleware came out of ("none" without a RATE_LIMIT binding, "get" for a
\* 429 or a failed get, "put" otherwise).
\* The counter is stored as a decimal string and read back with parseInt,
\* which is exact for the counts 1, 2, ... the middleware writes.
RateLimiterMw(env, got, req, t, fault) ==
    IF ~env.kvConfigured
    THEN [next |-> TRUE, headers |-> NoHeaders, response |-> {}, put |-> {}, caught |-> FALSE, after |-> "none"]
    ELSE LET windowStart == MwWindowStart(t)
             windowKey == WindowKey(ClientId(req), windowStart)
             count == IF got # {} THEN CHOOSE v \in got : TRUE ELSE 0
             retryAfter == CeilDiv(windowStart + MwWindowMs - t, 1000)
         IN  IF fault = "get" THEN MwCatch("get")
             ELSE IF MwOverLimit(count, MwMax)
             THEN [next |-> FALSE,
                   headers |-> RateLimitHeaders(MwMax, 0, windowStart + MwWindowMs),
                   response |-> {[status |-> 429,
                                  body |-> [error |-> "Too Many Requests",
                                            message |-> retryAfter,  \* the seconds the text names
                                            retryAfter |-> retryAfter]]},
                   put |-> {}, caught |-> FALSE, after |-> "get"]
             ELSE IF fault = "put" THEN MwCatch("put")
             ELSE [next |-> TRUE,
                   headers |-> RateLimitHeaders(MwMax, MwMax - count - 1, windowStart + MwWindowMs),
                   response |-> {},
                   put |-> {[key |-> windowKey, val |-> count + 1]},
                   caught |-> FALSE, after |-> "put"]

\* routes.get('/version'): the handler answers 200 with the version record
RouteHandler(env, req) ==
    [status |-> 200,
     body |-> [gateway |-> "0.1.0", environment |-> env.environment, runtime |-> "Cloudflare Workers"]]

\* if (apiKey): the X-API-Key header is present and not the empty string
KeyGiven(req) == Given(req.apiKey)

\* header values whose characters matter are kept as sequences of characters
BearerPrefix == <<"B", "e", "a", "r", "e", "r", " ">>

\* authHeader?.startsWith('Bearer ')
StartsWith(s, prefix) == Len(s) >= Len(prefix) /\ SubSeq(s, 1, Len(prefix)) = prefix

\* authHeader.slice(7)
SliceFrom(s, start) == SubSeq(s, start + 1, Len(s))

\* the Authorization header starts with 'Bearer ' and a non-empty token follows
BearerToken(req) ==
    \E v \in req.authorization : StartsWith(v, BearerPrefix) /\ SliceFrom(v, 7) # << >>

\* auth(c, next) of middleware/auth.ts: next() for path '/health'; with an
\* X-API-Key, 401 when it is outside a non-empty API_KEYS and next()
\* otherwise; with a bearer token next(); and next() for everything else.
\* index.ts imports it and mounts it on no path, and the routes do not use it.
Auth(env, req) ==
    IF req.path = "/health" THEN [next |-> TRUE, response |-> {}]
    ELSE IF KeyGiven(req)
    THEN IF env.apiKeys # {} /\ ~(req.apiKey \subseteq env.apiKeys)
         THEN [next |-> FALSE,
               response |-> {[status |-> 401, body |-> [error |-> "Unauthorized", message |-> "Invalid API key"]]}]
         ELSE [next |-> TRUE, response |-> {}]
    ELSE IF BearerToken(req) THEN [next |-> TRUE, response |-> {}]
    ELSE [next |-> TRUE, response |-> {}]

\* the KV operation of a request that throws, if any
Faults == {"none", "get", "put"}

\* the observer of the gateway: per aligned window the requests passed on to
\* the handler, with the times of the first and the last one, for as long as
\* the KV namespace is configured and no KV operation has failed
Unobserved == [faulted |-> TRUE, passes |-> [w \in MwWindows |-> [count |-> 0, first |-> 0, last |-> 0]]]
Unfaulted == [faulted |-> FALSE, passes |-> [w \in MwWindows |-> [count |-> 0, first |-> 0, last |-> 0]]]

Observed(seen, env, caught, passed, t) ==
    IF seen.faulted \/ ~env.kvConfigured \/ caught THEN Unobserved
    ELSE IF ~passed THEN seen
    ELSE LET w == MwWindowStart(t)
             p == seen.passes[w]
         IN  [seen EXCEPT !.passes[w] = [count |-> p.count + 1,
                                         first |-> IF p.count = 0 THEN t ELSE p.first,
                                         last |-> t]]

\* the answer to a request the middleware is through with: the route
\* handler's when next() was called, the middleware's own otherwise; the
\* headers set with c.header go out on whichever response is returned
GatewayAnswer(m, req, t, fault) ==
    LET answer == IF m.next THEN RouteHandler(config, req) ELSE CHOOSE r \in m.response : TRUE
    IN  [status |-> answer.status, body |-> answer.body, headers |-> m.headers,
         handled |-> m.next, fault |-> IF m.caught THEN fault ELSE "none",
         req |-> req, at |-> t]

\* one GET /api/version enters the app and the rateLimiter mounted on
\* /api/*: without a RATE_LIMIT binding next() is called at once (lines
\* 25-28); otherwise Date.now() is read (line 36) and kv.get awaited (line 42)
GatewayCall(w) ==
    /\ pc[w] = "idle"
    /\ LET req == Request(config.apiKey)
       IN  IF ~config.kvConfigured
           THEN \E m \in {RateLimiterMw(config, {}, req, now, "none")} :
                    /\ last' = {GatewayAnswer(m, req, now, "none")}
                    /\ log' = Observed(log, config, m.caught, m.next, now)
                    /\ UNCHANGED <<pc, snap>>
           ELSE /\ pc' = [pc EXCEPT ![w] = "called"]
                /\ snap' = [snap EXCEPT ![w] = {[at |-> now, req |-> req, fault |-> "none", out |-> {}]}]
                /\ UNCHANGED <<last, log>>
    /\ UNCHANGED <<now, startDay, config, cleared, twin, unexpiring, health, calls, healthChecks, metrics, recorded, kv, burst, tally, members, probed, prev, loadFactor>>

\* the store serves the get of the request in flight, or the get throws: a
\* 429 is returned and a failed get caught here; otherwise kv.put is awaited
\* (line 59)
GatewayGet(w, fault) ==
    /\ pc[w] = "called"
    /\ \E s \in snap[w] :
       \E m \in {RateLimiterMw(config, KVGet(kv, WindowKey(ClientId(s.req), MwWindowStart(s.at)), now),
                               s.req, s.at, fault)} :
           IF m.after = "put"
           THEN /\ pc' = [pc EXCEPT ![w] = "got"]
                /\ snap' = [snap EXCEPT ![w] = {[s EXCEPT !.fault = fault, !.out = {m}]}]
                /\ UNCHANGED <<last, log>>
           ELSE /\ pc' = [pc EXCEPT ![w] = "idle"]
                /\ snap' = [snap EXCEPT ![w] = {}]
                /\ last' = {GatewayAnswer(m, s.req, s.at, fault)}
                /\ log' = Observed(log, config, m.caught, m.next, s.at)
    /\ UNCHANGED <<now, startDay, config, cleared, twin, unexpiring, health, calls, healthChecks, metrics, recorded, kv, burst, tally, members, probed, prev, loadFactor>>

\* the put of the request in flight lands, or throws and is caught: the
\* headers are set (lines 64-66) and next() is called (line 73)
GatewayPut(w) ==
    /\ pc[w] = "got"
    /\ \E s \in snap[w] : \E m \in s.out :
           /\ kv' = IF m.put = {} THEN kv
                    ELSE LET e == CHOOSE e \in m.put : TRUE IN KVPut(kv, e.key, e.val, MwTtl, now)
           /\ last' = {GatewayAnswer(m, s.req, s.at, s.fault)}
           /\ log' = Observed(log, config, m.caught, m.next, s.at)
    /\ pc' = [pc EXCEPT ![w] = "idle"]
    /\ snap' = [snap EXCEPT ![w] = {}]
    /\ UNCHANGED <<now, startDay, config, cleared, twin, unexpiring, health, calls, healthChecks, metrics, recorded, burst, tally, members, probed, prev, loadFactor>>

\* the clock advances by half a window
GatewayTick ==
    /\ now + MwWindowMs \div 2 <= MaxMwTicks * (MwWindowMs \div 2)
    /\ now' = now + MwWindowMs \div 2
    /\ UNCHANGED <<startDay, config, cleared, twin, unexpiring, health, calls, healthChecks, metrics, recorded, kv, last, log, burst, pc, snap, tally, members, probed, prev, loadFactor>>

InitGateway ==
    /\ now = 0
    /\ config \in GatewayEnvs
    /\ kv = [k \in GatewayKeys |-> {}]
    /\ last = {}
    /\ log = IF config.kvConfigured THEN Unfaulted ELSE Unobserved
    /\ Idle

\* the steps of the requests in flight
GatewaySteps == \E w \in Workers : (\E fault \in Faults : GatewayGet(w, fault)) \/ GatewayPut(w)

\* serialised access: a request enters when none is in flight
NextGateway == (AllIdle /\ GatewayCall(1)) \/ GatewaySteps \/ GatewayTick
SpecGateway == InitGateway /\ [][NextGateway]_vars

\* requests of one client that overlap: a request enters while others are
\* between their awaits
\* The runs start on an empty store or with the counter of the first window
\* NumWorkers below max, and requests enter while the counter of the
\* current window is that near to 0 or to max; the observer of the windows
\* is off.
StoredCount == {e.val : e \in kv[WindowKey("bad", MwWindowStart(now))]}
NearEdge == \A c \in StoredCount : c <= NumWorkers \/ c >= MwMax - NumWorkers
InitGatewayRace ==
    /\ now = 0
    /\ config \in {env \in GatewayEnvs : env.kvConfigured /\ env.apiKey = {"bad"}}
    /\ \E stored \in {{}, {[val |-> MwMax - NumWorkers, exp |-> MwTtl]}} :
           kv = [k \in GatewayKeys |-> IF k = WindowKey("bad", 0) THEN stored ELSE {}]
    /\ last = {}
    /\ log = Unobserved
    /\ Idle
NextGatewayRace == (\E w \in Workers : NearEdge /\ GatewayCall(w)) \/ GatewaySteps \/ GatewayTick
SpecGatewayRace == InitGatewayRace /\ [][NextGatewayRace]_vars


\* C13: with the KV namespace working, at most max requests of one client
\* pass within one aligned window, at most 2 * max pass in two adjacent
\* aligned windows (which cover every interval of length windowMs), and a
\* denial reports reset = windowStart + windowMs.
C13_FixedWindowBounds ==
    ~log.faulted =>
        /\ \A w \in MwWindows : log.passes[w].count <= MwMax
        /\ \A w \in MwWindows : (w + MwWindowMs) \in MwWindows =>
              log.passes[w].count + log.passes[w + MwWindowMs].count <= 2 * MwMax
        /\ \A r \in last : r.status = 429 =>
              r.headers["X-RateLimit-Reset"] = {MwWindowStart(r.at) + MwWindowMs}

\* 2 * max requests passed within half a window around a boundary, and the next one is denied
C13_Witness ==
    /\ ~log.faulted
    /\ log.passes[0].count = MwMax /\ log.passes[0].first = MwWindowMs \div 2
    /\ log.passes[MwWindowMs].count = MwMax /\ log.passes[MwWindowMs].last = MwWindowMs
    /\ \E r \in last : r.status = 429 /\ r.headers["X-RateLimit-Reset"] = {2 * MwWindowMs}
\* C14: when a KV get or put of the rate-limit check raises an error, the
\* request is allowed: the handler is reached and the answer is neither 429
\* nor 500.
C14_FailOpen ==
    \A r \in last : r.fault # "none" => (r.handled /\ r.status \notin {429, 500})

\* the get fails for a client whose window is used up: the request passes
C14_Witness ==
    \E r \in last :
        /\ r.fault = "get" /\ r.handled /\ r.status = 200
        /\ KVGet(kv, WindowKey(ClientId(r.req), MwWindowStart(r.at)), r.at) = {MwMax}
\* C15: every 429 of the gateway's rate limiting carries X-RateLimit-Limit,
\* X-RateLimit-Remaining with value 0, X-RateLimit-Reset and Retry-After, and
\* a JSON body with error, message and retryAfter.
C15_DenialHeaders ==
    \A r \in last :
        r.status = 429 =>
            /\ r.headers["X-RateLimit-Limit"] # {}
            /\ r.headers["X-RateLimit-Remaining"] = {0}
            /\ r.headers["X-RateLimit-Reset"] # {}
            /\ r.headers["Retry-After"] # {}
            /\ {"error", "message", "retryAfter"} \subseteq DOMAIN r.body

\* C16: every /api/* request that the rate-limit step admits and forwards
\* gets a response with X-RateLimit-Limit, X-RateLimit-Remaining and
\* X-RateLimit-Reset, also when the KV namespace is not configured and when
\* a KV operation fails.
C16_SuccessHeaders ==
    \A r \in last :
        r.handled =>
            \A h \in {"X-RateLimit-Limit", "X-RateLimit-Remaining", "X-RateLimit-Reset"} :
                r.headers[h] # {}

\* C17: every /api/* request with an X-API-Key that is not in a non-empty
\* configured API_KEYS set is answered with 401 and never reaches the route
\* handler.
C17_InvalidKeyRejected ==
    \A r \in last :
        (r.req.apiKey # {} /\ config.apiKeys # {} /\ ~(r.req.apiKey \subseteq config.apiKeys))
            => (r.status = 401 /\ ~r.handled)

----------------------------------------------------------------------------
(* AdaptiveRateLimiter *)

KeyAdaptive == "rl:adaptive:"
KeyLoadFactor == "rl:load-factor"

\* minLoadFactor 0.2 and maxLoadFactor 2.0, in hundredths
MinLoadFactor == 20
MaxLoadFactor == 200

\* new AdaptiveRateLimiter(kv, baseLimit, baseRatePerSecond): the base bucket
AdaptiveConfigs == {TokenBucketLimiter(b, 1, 1) : b \in {3, 16, 20}}

\* the currentLoad values of the runs' updateLoadFactor calls, maxLoad being 100
Loads == {10, 30, 50, 70, 90, 95}
MaxLoad == 100

\* the factor updateLoadFactor chooses: loadPercent = currentLoad / maxLoad
\* against 0.9, 0.7, 0.5 and 0.3 (the quotient of two integers compares with
\* a decimal like the exact fraction does)
FactorForLax(currentLoad, maxLoad) ==
    IF 10 * currentLoad >= 9 * maxLoad THEN MinLoadFactor
    ELSE IF 10 * currentLoad >= 7 * maxLoad THEN 50
    ELSE IF 10 * currentLoad >= 5 * maxLoad THEN 75
    ELSE IF 10 * currentLoad < 3 * maxLoad THEN MaxLoadFactor
    ELSE FactorScale
FactorFor(currentLoad, maxLoad) ==
    IF 10 * currentLoad > 9 * maxLoad THEN MinLoadFactor
    ELSE IF 10 * currentLoad > 7 * maxLoad THEN 50
    ELSE IF 10 * currentLoad > 5 * maxLoad THEN 75
    ELSE IF 10 * currentLoad < 3 * maxLoad THEN MaxLoadFactor
    ELSE FactorScale

\* 1 / this.loadFactor, in sixths: 5, 2, 1.3333333333333333, 1 and 0.5 for the five factors
CostOf(factor) == (TokenScale * FactorScale) \div factor

\* updateLoadFactor(currentLoad, maxLoad) is called: the field is set (lines
\* 371-383) and the put of String(this.loadFactor) to 'rl:load-factor'
\* awaited (line 385)
UpdateLoadFactorCall(w, currentLoad, maxLoad) ==
    /\ pc[w] = "idle"
    /\ loadFactor' = FactorFor(currentLoad, maxLoad)
    /\ pc' = [pc EXCEPT ![w] = "putting"]
    /\ snap' = [snap EXCEPT ![w] = {[value |-> loadFactor']}]
    /\ prev' = {[currentLoad |-> currentLoad, maxLoad |-> maxLoad, by |-> w, returned |-> FALSE, checked |-> FALSE]}
    \* a burst on the fresh key can be counted from here if no check came before
    /\ burst' = IF last = {} /\ now = 0 THEN 0 ELSE -1
    /\ UNCHANGED <<now, startDay, config, cleared, twin, unexpiring, health, calls, healthChecks, metrics, recorded, kv, last, log, tally, members, probed>>

\* the put of updateLoadFactor lands, without expiry (String and parseFloat
\* keep these values), and the call returns
UpdateLoadFactorPut(w) ==
    /\ pc[w] = "putting"
    /\ \E s \in snap[w] : kv' = [kv EXCEPT ![KeyLoadFactor] = {s.value}]
    /\ pc' = [pc EXCEPT ![w] = "idle"]
    /\ snap' = [snap EXCEPT ![w] = {}]
    /\ prev' = {IF p.by = w THEN [p EXCEPT !.returned = TRUE] ELSE p : p \in prev}
    /\ UNCHANGED <<now, startDay, config, cleared, twin, unexpiring, health, calls, healthChecks, metrics, recorded, last, log, burst, tally, members, probed, loadFactor>>

\* check(key) is called: kv.get('rl:load-factor') is awaited (line 390)
AdaptiveCall(w) ==
    /\ pc[w] = "idle"
    /\ pc' = [pc EXCEPT ![w] = "factor"]
    /\ snap' = [snap EXCEPT ![w] = {[at |-> now, cost |-> 0, out |-> {}]}]
    /\ UNCHANGED <<now, startDay, config, cleared, twin, unexpiring, health, calls, healthChecks, metrics, recorded, kv, last, log, burst, tally, members, probed, prev, loadFactor>>

\* the store serves the get of the factor: the stored factor, when there is
\* one, replaces the field (lines 391-393); the base bucket is checked with
\* cost 1 / this.loadFactor: its check reads Date.now() (line 143) and
\* awaits kv.get (line 147)
AdaptiveFactor(w) ==
    /\ pc[w] = "factor"
    /\ LET storedFactor == kv[KeyLoadFactor]
           factor == IF storedFactor # {} THEN CHOOSE f \in storedFactor : TRUE ELSE loadFactor
       IN  /\ loadFactor' = factor
           /\ snap' = [snap EXCEPT ![w] = {[at |-> now, cost |-> CostOf(factor), out |-> {}]}]
    /\ pc' = [pc EXCEPT ![w] = "called"]
    /\ UNCHANGED <<now, startDay, config, cleared, twin, unexpiring, health, calls, healthChecks, metrics, recorded, kv, last, log, burst, tally, members, probed, prev>>

\* the admitted checks of a burst on a fresh key at one instant under one
\* factor, up to its first denial, after a check returns
AdaptiveBurst(allowed) ==
    IF burst >= 0 /\ last # {} /\ Denied THEN -1
    ELSE IF burst >= 0 /\ allowed THEN burst + 1
    ELSE burst

\* the store serves the get of the bucket: a denial is returned (lines
\* 162-171), otherwise kv.put is awaited (line 179)
AdaptiveGet(w) ==
    /\ pc[w] = "called"
    /\ \E s \in snap[w] :
       \E e \in {TBEval(config, {x.val : x \in {x \in kv[KeyAdaptive] : now \div 1000 < x.exp}}, s.at, s.cost)} :
           IF e.put # {}
           THEN /\ pc' = [pc EXCEPT ![w] = "got"]
                /\ snap' = [snap EXCEPT ![w] = {[s EXCEPT !.out = {e}]}]
                /\ UNCHANGED <<last, burst, prev>>
           ELSE /\ pc' = [pc EXCEPT ![w] = "idle"]
                /\ snap' = [snap EXCEPT ![w] = {}]
                /\ last' = {e.result}
                /\ burst' = AdaptiveBurst(FALSE)
                /\ prev' = {[p EXCEPT !.checked = TRUE] : p \in prev}
    /\ UNCHANGED <<now, startDay, config, cleared, twin, unexpiring, health, calls, healthChecks, metrics, recorded, kv, log, tally, members, probed, loadFactor>>

\* the put of the bucket lands and the check returns allowed (lines 179-191)
AdaptivePut(w) ==
    /\ pc[w] = "got"
    /\ \E s \in snap[w] : \E e \in s.out :
           /\ kv' = [kv EXCEPT ![KeyAdaptive] =
                        {[val |-> CHOOSE x \in e.put : TRUE, exp |-> (now \div 1000) + BucketTtl]}]
           /\ last' = {e.result}
    /\ burst' = AdaptiveBurst(TRUE)
    /\ prev' = {[p EXCEPT !.checked = TRUE] : p \in prev}
    /\ pc' = [pc EXCEPT ![w] = "idle"]
    /\ snap' = [snap EXCEPT ![w] = {}]
    /\ UNCHANGED <<now, startDay, config, cleared, twin, unexpiring, health, calls, healthChecks, metrics, recorded, log, tally, members, probed, loadFactor>>

\* the clock advances by a second: the bucket refills one token and the burst is over
AdaptiveTick ==
    /\ now + 1000 <= MaxAdaptiveTicks * 1000
    /\ now' = now + 1000
    /\ burst' = -1
    /\ UNCHANGED <<startDay, config, cleared, twin, unexpiring, health, calls, healthChecks, metrics, recorded, kv, last, log, pc, snap, tally, members, probed, prev, loadFactor>>

InitAdaptive ==
    /\ now = 0
    /\ config \in AdaptiveConfigs
    /\ kv = [k \in {KeyAdaptive, KeyLoadFactor} |-> {}]
    /\ last = {}
    /\ log = <<>>
    /\ Idle

\* the steps of the calls in flight
AdaptiveSteps ==
    \E w \in Workers : UpdateLoadFactorPut(w) \/ AdaptiveFactor(w) \/ AdaptiveGet(w) \/ AdaptivePut(w)

\* serialised access: a call starts when none is in flight
NextAdaptive ==
    \/ \E currentLoad \in Loads : AllIdle /\ UpdateLoadFactorCall(1, currentLoad, MaxLoad)
    \/ AllIdle /\ AdaptiveCall(1)
    \/ AdaptiveSteps
    \/ AdaptiveTick
SpecAdaptive == InitAdaptive /\ [][NextAdaptive]_vars

\* calls on one AdaptiveRateLimiter that overlap: a call starts while others
\* are between their awaits
InitAdaptiveRace == InitAdaptive /\ config.bucketSize = 3
NextAdaptiveRace ==
    \/ \E w \in Workers, currentLoad \in Loads : UpdateLoadFactorCall(w, currentLoad, MaxLoad)
    \/ \E w \in Workers : AdaptiveCall(w)
    \/ AdaptiveSteps
    \/ AdaptiveTick
SpecAdaptiveRace == InitAdaptiveRace /\ [][NextAdaptiveRace]_vars

\* C18: after any sequence of updateLoadFactor calls the load factor is the
\* table value for the most recent one (ratio > 0.9: 0.2, > 0.7: 0.5,
\* > 0.5: 0.75, < 0.3: 2.0, otherwise 1.0), lies in [0.2, 2.0], and a check
\* after it delegates to the bucket with cost = 1 / loadFactor.
C18_LoadFactorTable ==
    \A p \in prev :
        LET expected == IF 10 * p.currentLoad > 9 * p.maxLoad THEN 20
                        ELSE IF 10 * p.currentLoad > 7 * p.maxLoad THEN 50
                        ELSE IF 10 * p.currentLoad > 5 * p.maxLoad THEN 75
                        ELSE IF 10 * p.currentLoad < 3 * p.maxLoad THEN 200
                        ELSE 100
        IN  /\ loadFactor = expected
            /\ p.returned => kv[KeyLoadFactor] = {expected}
            /\ \A f \in kv[KeyLoadFactor] \cup {loadFactor} : 20 <= f /\ f <= 200
            /\ p.checked => \A r \in last : r.cost * expected = TokenScale * FactorScale

\* a load of exactly 90 % is not above 0.9: the check after it costs 2 tokens
C18_Witness ==
    \E p \in prev, r \in last :
        /\ p.currentLoad = 90 /\ p.maxLoad = 100 /\ p.returned /\ p.checked
        /\ r.cost = 2 * CostOne
        /\ loadFactor = 50

\* C19: with base bucket B and load factor f, an instantaneous burst of
\* checks on a fresh key admits exactly floor(B * f) requests before the
\* first denial.
C19_BurstAdmitsFloorBf ==
    (burst >= 0 /\ prev # {}) =>
        LET expected == (config.bucketSize * loadFactor) \div FactorScale
        IN  /\ burst <= expected
            /\ Denied => burst = expected

-----------------------------------------------------------------------------
(* MetricsCollector: the bounded buffer of request metrics *)

\* the request metrics recorded: path and status code
RequestMetrics == [path : {"/api/health", "/api/version"}, statusCode : {200, 500}]

\* new MetricsCollector(maxMetrics)
MetricsConfigs == {[maxMetrics |-> n] : n \in 0..3}

\* Array.prototype.slice(start): a negative start counts from the end, and
\* the relative start 0 (which is what -0 is) keeps the whole array
Slice(arr, start) ==
    LET len == Len(arr)
        k == IF start < 0 THEN (IF len + start > 0 THEN len + start ELSE 0)
             ELSE (IF start < len THEN start ELSE len)
    IN  SubSeq(arr, k + 1, len)

\* record(metric): push, then trim to the last maxMetrics entries when longer
Record(metric) ==
    /\ LET pushed == Append(metrics, metric)
       IN  metrics' = IF Len(pushed) > config.maxMetrics
                      THEN Slice(pushed, -config.maxMetrics)
                      ELSE pushed
    /\ recorded' = Append(recorded, metric)
    /\ UNCHANGED <<now, startDay, config, cleared, twin, unexpiring, health, calls, healthChecks, kv, last, log, burst, pc, snap, tally, members, probed, prev, loadFactor>>

\* clear(): this.metrics = []
Clear ==
    /\ metrics' = <<>>
    /\ cleared' = Len(recorded)
    /\ UNCHANGED <<now, startDay, config, twin, unexpiring, health, calls, healthChecks, kv, last, log, burst, pc, snap, tally, members, probed, prev, loadFactor, recorded>>

InitMetrics ==
    /\ now = 0
    /\ config \in MetricsConfigs
    /\ kv = EmptyKV
    /\ last = {}
    /\ log = <<>>
    /\ Idle

NextMetrics ==
    \/ Len(recorded) < MaxRecords /\ \E metric \in RequestMetrics : Record(metric)
    \/ Clear
SpecMetrics == InitMetrics /\ [][NextMetrics]_vars

\* C20: after any sequence of record calls (since the buffer was last
\* cleared, if it was), for every non-negative maxMetrics, the buffer holds
\* at most maxMetrics entries and they are exactly the most recently
\* recorded ones, in recording order.
C20_BufferHoldsNewest ==
    LET n == Len(recorded)
        since == n - cleared
        k == IF config.maxMetrics < since THEN config.maxMetrics ELSE since
    IN  /\ Len(metrics) <= config.maxMetrics
        /\ metrics = SubSeq(recorded, n - k + 1, n)

-----------------------------------------------------------------------------
(* MetricsCollector.checkUpstream: health checks of an upstream *)

\* how the fetch of a health check ends: a 2xx response, another response,
\* or a rejection (network error, abort after timeoutMs)
FetchOutcomes == {"ok", "status", "throw"}

\* existing?.consecutiveFailures || 0
FailuresOf(existing) == IF existing = {} THEN 0 ELSE (CHOOSE h \in existing : TRUE).consecutiveFailures

\* the HealthCheckResult a check builds once its fetch has ended
HealthCheckResult(upstream, existing, startTime, outcome, t) ==
    [upstream |-> upstream,
     healthy |-> outcome = "ok",
     latencyMs |-> t - startTime,
     lastCheck |-> t,
     consecutiveFailures |-> IF outcome = "ok" THEN 0 ELSE FailuresOf(existing) + 1,
     error |-> outcome = "throw"]

\* checkUpstream up to its await: reads the stored result and the clock, starts the fetch
CheckUpstreamStart(w, upstream) ==
    /\ calls[w] = {}
    /\ health.completed + Cardinality({v \in Workers : calls[v] # {}}) < MaxHealthChecks
    /\ calls' = [calls EXCEPT ![w] = {[upstream |-> upstream, existing |-> healthChecks[upstream], startTime |-> now]}]
    /\ UNCHANGED <<now, startDay, config, cleared, twin, unexpiring, kv, last, log, burst, pc, snap, tally, members, probed, prev,
                   loadFactor, metrics, recorded, healthChecks, health>>

\* checkUpstream after its await: builds the result from what it read before, stores and returns it
CheckUpstreamEnd(w, outcome) ==
    /\ calls[w] # {}
    /\ LET c == CHOOSE c \in calls[w] : TRUE
           result == HealthCheckResult(c.upstream, c.existing, c.startTime, outcome, now)
       IN  /\ healthChecks' = [healthChecks EXCEPT ![c.upstream] = {result}]
           /\ last' = {result}
    /\ calls' = [calls EXCEPT ![w] = {}]
    /\ health' = [completed |-> health.completed + 1,
                  failures |-> IF outcome = "ok" THEN 0 ELSE health.failures + 1]
    /\ UNCHANGED <<now, startDay, config, cleared, twin, unexpiring, kv, log, burst, pc, snap, tally, members, probed, prev,
                   loadFactor, metrics, recorded>>

HealthTick ==
    /\ now + 1000 <= MaxHealthTicks * 1000
    /\ now' = now + 1000
    /\ UNCHANGED <<startDay, config, cleared, twin, unexpiring, kv, last, log, burst, pc, snap, tally, members, probed, prev,
                   loadFactor, metrics, recorded, healthChecks, calls, health>>

InitHealth ==
    /\ now = 0
    /\ config = [maxMetrics |-> 3]
    /\ kv = EmptyKV
    /\ last = {}
    /\ log = <<>>
    /\ Idle

NextHealth ==
    \/ \E w \in Workers, upstream \in Upstreams : CheckUpstreamStart(w, upstream)
    \/ \E w \in Workers, outcome \in FetchOutcomes : CheckUpstreamEnd(w, outcome)
    \/ HealthTick
SpecHealth == InitHealth /\ [][NextHealth]_vars

\* C21: for one upstream, after any sequence of checkUpstream calls,
\* overlapping ones included, the stored consecutiveFailures is the number
\* of failed checks completed since the most recently completed successful
\* one, and 0 right after a success completes.
C21_ConsecutiveFailuresCounted ==
    \A upstream \in Upstreams : \A h \in healthChecks[upstream] :
        h.consecutiveFailures = health.failures

-----------------------------------------------------------------------------
(* MetricsCollector.getAggregated: aggregation over a time window *)

\* new MetricsCollector(): the default maxMetrics
DefaultMaxMetrics == 10000

\* MetricsCollector.fromRequest: the metric of a request answered at t;
\* upstream is optional ({} when absent)
FromRequest(path, method, statusCode, latencyMs, upstream, cached, t) ==
    [path |-> path, method |-> method, statusCode |-> statusCode, latencyMs |-> latencyMs,
     timestamp |-> t, upstream |-> upstream, cached |-> cached]

\* the requests the aggregation runs record
Traffic(t) ==
    {FromRequest("/api/version", "GET", 500, 30, Upstreams, FALSE, t),
     FromRequest("/api/health", "GET", 429, 5, {}, TRUE, t)}

\* ten requests with latencies 10, 20, ..., 100 ms, eight answered 200 and two 500
TenLatencies == <<30, 10, 100, 50, 20, 80, 60, 40, 90, 70>>
TenRequests ==
    [i \in 1..10 |-> FromRequest("/api/health", "GET", IF i <= 2 THEN 500 ELSE 200,
                                 TenLatencies[i], {}, FALSE, 0)]

\* this.metrics.filter(m => m.timestamp >= cutoff)
RelevantStrict(buf, cutoff) == SelectSeq(buf, LAMBDA m : m.timestamp > cutoff)
Relevant(buf, cutoff) == SelectSeq(buf, LAMBDA m : m.timestamp >= cutoff)

\* .sort((a, b) => a - b), as an insertion sort
RECURSIVE InsertSorted(_, _)
InsertSorted(x, sorted) ==
    IF sorted = <<>> THEN <<x>>
    ELSE IF x < Head(sorted) THEN <<x>> \o sorted
    ELSE <<Head(sorted)>> \o InsertSorted(x, Tail(sorted))

RECURSIVE SortAscending(_)
SortAscending(xs) ==
    IF xs = <<>> THEN <<>> ELSE InsertSorted(xs[Len(xs)], SortAscending(SubSeq(xs, 1, Len(xs) - 1)))

\* .reduce((a, b) => a + b, 0)
RECURSIVE SumOf(_)
SumOf(xs) == IF xs = <<>> THEN 0 ELSE Head(xs) + SumOf(Tail(xs))

\* Math.ceil((p / 100) * sorted.length) - 1; the binary64 product rounds to
\* the exact one on the right side of every integer for p in {50, 95, 99} and
\* lengths up to 10000
PercentileIndexFloor(n, p) == (p * n) \div 100 - 1
PercentileIndex(n, p) == CeilDiv(p * n, 100) - 1

\* _percentile(sorted, p): sorted[Math.max(0, index)], with zero-based index
Percentile(sorted, p) == sorted[Max(0, PercentileIndex(Len(sorted), p)) + 1]

\* the entries of a sequence that satisfy a test, counted
CountOf(xs, Test(_)) == Cardinality({i \in 1..Len(xs) : Test(xs[i])})

\* _emptyMetrics()
EmptyMetrics ==
    [requests |-> [total |-> 0, success |-> 0, errors |-> 0, cached |-> 0],
     latency |-> [avg |-> Rat(0, 1), p50 |-> 0, p95 |-> 0, p99 |-> 0, min |-> 0, max |-> 0],
     rateLimit |-> [limited |-> 0, remaining |-> 0],
     byPath |-> << >>, byStatus |-> << >>, byUpstream |-> << >>]

\* this.healthChecks.get(upstream)?.healthy ?? true
HealthyOf(healthMap, upstream) ==
    IF healthMap[upstream] = {} THEN TRUE ELSE (CHOOSE h \in healthMap[upstream] : TRUE).healthy

\* the aggregate of a non-empty list of metrics
Aggregated(relevant, healthMap) ==
    LET n == Len(relevant)
        latencies == SortAscending([i \in 1..n |-> relevant[i].latencyMs])
        of(Test(_)) == SelectSeq(relevant, Test)
        paths == {relevant[i].path : i \in 1..n}
        statuses == {relevant[i].statusCode : i \in 1..n}
        upstreams == UNION {relevant[i].upstream : i \in 1..n}
        total(ms) == SumOf([i \in 1..Len(ms) |-> ms[i].latencyMs])
    IN  [requests |->
             [total |-> n,
              success |-> CountOf(relevant, LAMBDA m : m.statusCode >= 200 /\ m.statusCode < 400),
              errors |-> CountOf(relevant, LAMBDA m : ~(m.statusCode >= 200 /\ m.statusCode < 400)),
              cached |-> CountOf(relevant, LAMBDA m : m.cached)],
         latency |->
             [avg |-> Rat(SumOf(latencies), n),
              p50 |-> Percentile(latencies, 50),
              p95 |-> Percentile(latencies, 95),
              p99 |-> Percentile(latencies, 99),
              min |-> latencies[1],
              max |-> latencies[n]],
         rateLimit |-> [limited |-> CountOf(relevant, LAMBDA m : m.statusCode = 429), remaining |-> 0],
         byPath |->
             [path \in paths |->
                 LET ms == of(LAMBDA m : m.path = path)
                 IN  [count |-> Len(ms), avgLatency |-> Rat(total(ms), Len(ms)),
                      errors |-> CountOf(ms, LAMBDA m : m.statusCode >= 400)]],
         byStatus |-> [status \in statuses |-> CountOf(relevant, LAMBDA m : m.statusCode = status)],
         byUpstream |->
             [upstream \in upstreams |->
                 LET ms == of(LAMBDA m : upstream \in m.upstream)
                 IN  [count |-> Len(ms), avgLatency |-> Rat(total(ms), Len(ms)),
                      errors |-> CountOf(ms, LAMBDA m : m.statusCode >= 500),
                      healthy |-> HealthyOf(healthMap, upstream)]]]

\* getAggregated(windowMinutes) at time t
Aggregate(buf, healthMap, t, windowMinutes) ==
    LET cutoff == t - windowMinutes * 60 * 1000
        relevant == Relevant(buf, cutoff)
    IN  IF Len(relevant) = 0 THEN EmptyMetrics ELSE Aggregated(relevant, healthMap)

\* the windows asked for, in minutes (5 is the default)
AggWindows == {1, 5}

\* the observer's summary of a getAggregated call: its arguments and output,
\* the buffer and health map it ran on, and how many record calls and
\* health checks had completed before it
CallSummary(windowMinutes, output) ==
    [windowMinutes |-> windowMinutes, at |-> now, output |-> output, buffer |-> metrics,
     healthMap |-> healthChecks, records |-> Len(recorded), checks |-> health.completed,
     cleared |-> cleared]

GetAggregated(windowMinutes) ==
    /\ \E output \in {Aggregate(metrics, healthChecks, now, windowMinutes)} :
           /\ last' = {output}
           /\ prev' = {[call |-> CallSummary(windowMinutes, output), before |-> {p.call : p \in prev}]}
    /\ UNCHANGED <<now, startDay, config, cleared, twin, unexpiring, kv, log, burst, pc, snap, tally, members, probed,
                   loadFactor, metrics, recorded, healthChecks, calls, health>>

\* a request is answered now and its metric recorded
RecordRequest ==
    /\ Len(recorded) < Len(TenRequests) + MaxAggRecords
    /\ \E metric \in Traffic(now) : Record(metric)

AggTick ==
    /\ now + 60 * 1000 <= MaxAggMinutes * 60 * 1000
    /\ now' = now + 60 * 1000
    /\ UNCHANGED <<startDay, config, cleared, twin, unexpiring, kv, last, log, burst, pc, snap, tally, members, probed, prev,
                   loadFactor, metrics, recorded, healthChecks, calls, health>>

\* the collector starts with the ten requests recorded at time 0
InitAgg ==
    /\ now = 0
    /\ config = [maxMetrics |-> DefaultMaxMetrics]
    /\ kv = EmptyKV
    /\ last = {}
    /\ log = <<>>
    /\ burst = -1
    /\ pc = [w \in Workers |-> "idle"]
    /\ snap = [w \in Workers |-> {}]
    /\ tally = [w \in Workers |-> [overlapped |-> 0, flagged |-> FALSE]]
    /\ members = <<>>
    /\ probed = <<>>
    /\ prev = {}
    /\ startDay = 0
    /\ loadFactor = FactorScale
    /\ metrics = TenRequests
    /\ recorded = TenRequests
    /\ cleared = 0
    /\ health = [completed |-> 0, failures |-> 0]
    /\ calls = [w \in Workers |-> {}]
    /\ healthChecks = [u \in Upstreams |-> {}]
    /\ unexpiring = EmptyKV
    /\ twin = {}

\* one health check of the upstream runs alongside
NextAgg ==
    \/ \E windowMinutes \in AggWindows : GetAggregated(windowMinutes)
    \/ RecordRequest
    \/ Clear
    \/ AggTick
    \/ health.completed = 0 /\ \E upstream \in Upstreams : CheckUpstreamStart(1, upstream)
    \/ \E outcome \in FetchOutcomes : CheckUpstreamEnd(1, outcome)
SpecAgg == InitAgg /\ [][NextAgg]_vars

\* the metrics of a buffer that a window of windowMinutes ending at t holds
InWindowAt(buf, t, windowMinutes) ==
    {i \in 1..Len(buf) : buf[i].timestamp >= t - windowMinutes * 60 * 1000}

\* a getAggregated call leaves the buffer and the health map as they were
AggregationFrame ==
    \A p \in prev :
        /\ (Len(recorded) = p.call.records /\ cleared = p.call.cleared) => metrics = p.call.buffer
        /\ health.completed = p.call.checks => healthChecks = p.call.healthMap

\* C22: two successive getAggregated(w) calls with no record call between
\* them return identical output, and getAggregated leaves the metrics
\* buffer and the health map unchanged.
C22_AggregationIdempotent ==
    /\ AggregationFrame
    /\ \A p \in prev : \A b \in p.before :
           (b.windowMinutes = p.call.windowMinutes /\ b.records = p.call.records)
               => p.call.output = b.output

\* C22 as amended: the outputs are identical when, between the two calls, no
\* record call and no clear call happens, no health check completes and the
\* clock does not carry a buffered metric out of the window.
C22_AggregationIdempotentWhileWindowHolds ==
    /\ AggregationFrame
    /\ \A p \in prev : \A b \in p.before :
           (/\ b.windowMinutes = p.call.windowMinutes
            /\ b.records = p.call.records
            /\ b.cleared = p.call.cleared
            /\ b.checks = p.call.checks
            /\ InWindowAt(b.buffer, b.at, b.windowMinutes)
                   = InWindowAt(b.buffer, p.call.at, b.windowMinutes))
               => p.call.output = b.output

\* a second call one minute after the first, on the same non-empty window
C22_Witness ==
    \E p \in prev : \E b \in p.before :
        /\ b.windowMinutes = 1 /\ p.call.windowMinutes = 1
        /\ b.records = p.call.records /\ b.cleared = p.call.cleared /\ b.checks = p.call.checks
        /\ b.at = 0 /\ p.call.at = 60 * 1000
        /\ b.output.requests.total = Len(TenRequests)
        /\ p.call.output = b.output
        /\ metrics = p.call.buffer

\* x is the entry at zero-based position index of the ascending order of the
\* latencies of the metrics at positions idx of buf
AtRank(buf, idx, index, x) ==
    /\ \E i \in idx : buf[i].latencyMs = x
    /\ Cardinality({i \in idx : buf[i].latencyMs < x}) <= index
    /\ Cardinality({i \in idx : buf[i].latencyMs <= x}) > index

\* C23: for every non-empty set of metrics in the window, getAggregated
\* returns min <= p50 <= p95 <= p99 <= max, where percentile p is the entry
\* at position max(0, ceil(p / 100 * n) - 1) of the n latencies in ascending
\* order.
C23_PercentilesOrdered ==
    \A c \in prev :
        LET idx == InWindowAt(c.call.buffer, c.call.at, c.call.windowMinutes)
            n == Cardinality(idx)
            latency == c.call.output.latency
            rank(p) == LET index == -((-(p * n)) \div 100) - 1
                       IN  IF index < 0 THEN 0 ELSE index
        IN  n > 0 =>
                /\ latency.min <= latency.p50 /\ latency.p50 <= latency.p95
                /\ latency.p95 <= latency.p99 /\ latency.p99 <= latency.max
                /\ AtRank(c.call.buffer, idx, 0, latency.min)
                /\ AtRank(c.call.buffer, idx, n - 1, latency.max)
                /\ AtRank(c.call.buffer, idx, rank(50), latency.p50)
                /\ AtRank(c.call.buffer, idx, rank(95), latency.p95)
                /\ AtRank(c.call.buffer, idx, rank(99), latency.p99)

\* the latencies 10, 20, ..., 100 give p50 = 50 and p95 = 100
C23_Witness ==
    \E c \in prev :
        /\ c.call.buffer = TenRequests
        /\ c.call.output.requests.total = 10
        /\ c.call.output.requests.errors = 2
        /\ c.call.output.latency.min = 10
        /\ c.call.output.latency.p50 = 50
        /\ c.call.output.latency.p95 = 100
        /\ c.call.output.latency.max = 100

-----------------------------------------------------------------------------
(* Further properties of the limiters *)

\* C24: a CompositeRateLimiter.check that returns allowed=true charges every
\* member limiter exactly one request, so that a composite of one sliding
\* window of limit L admits L requests per window like the limiter alone.
C24_CompositeChargesOnce ==
    \A r \in last :
        r.allowed =>
            \A i \in 1..Len(members) :
                Cardinality({j \in 1..Len(probed) : probed[j].name = members[i].name}) = 1

\* C25: if a check is denied at time t with retryAfter = r and the next check
\* on the key, of the same cost, comes at t + r seconds or later, that check
\* is allowed (sliding window, token bucket with cost 1 and the adaptive
\* limiter's costs, leaky bucket).
C25_RetryAfterSuffices ==
    [][\A d \in last : \A n \in last' :
           (/\ ~d.allowed
            /\ n.op = d.op
            /\ n.cost = d.cost
            /\ \E r \in d.retryAfter : n.at >= d.at + r * 1000)
               => n.allowed]_vars

-----------------------------------------------------------------------------
(* Expiry of limiter records by their TTL *)

\* limiters that need two hours, or an hour and a half, to refill; at the
\* multiples of half an hour the binary64 quotient elapsed / refillInterval
\* of these rates is the exact one. (The reset time of a leaky bucket this
\* slow does not fit the integers of the model.)
TtlConfigs ==
    {RateLimitConfig(strategy, l, w, 0) :
        strategy \in {"sliding-window", "token-bucket"}, l \in {1, 2}, w \in {5400, 7200}}

HalfHourMs == 1800 * 1000

\* the clock advances by half an hour
TtlTick ==
    /\ now + HalfHourMs <= MaxTtlTicks * HalfHourMs
    /\ now' = now + HalfHourMs
    /\ UNCHANGED <<startDay, config, cleared, kv, last, log, burst, pc, snap, tally, members, probed, prev,
                   loadFactor, metrics, recorded, healthChecks, calls, health, unexpiring, twin>>

InitTtl == InitLimiter(TtlConfigs)
NextTtl == SerialCall(CostOne) \/ CheckSteps \/ TtlTick
SpecTtl == InitTtl /\ [][NextTtl]_vars

\* C26: expiry of a limiter record by its TTL never changes a decision: each
\* check returns the same allowed value against the store that expires
\* records as against one that never does, also for buckets that need more
\* than an hour to refill.
C26_ExpiryKeepsDecisions ==
    \A r \in last : \A u \in twin : r.allowed = u.allowed

-----------------------------------------------------------------------------
(* The limiters, the quota manager and the middleware, for what they write *)

\* what a run is about shows in its configuration
LimiterRun == "strategy" \in DOMAIN config
QuotaRun == "perMinute" \in DOMAIN config
GatewayRun == "kvConfigured" \in DOMAIN config

WriteConfigs ==
    SWConfigs \cup LBConfigs
        \cup {RateLimitConfig("token-bucket", 1, 1, 0), RateLimitConfig("token-bucket", 2, 1, 0)}

\* the gateway runs: those of the client with the key "bad"
InitWrites == InitLimiter(WriteConfigs) \/ InitQuota \/ (InitGateway /\ config.apiKey = {"bad"})
NextWrites ==
    \/ LimiterRun /\ NextLimiters
    \/ QuotaRun /\ NextQuota
    \/ GatewayRun /\ NextGateway
SpecWrites == InitWrites /\ [][NextWrites]_vars

\* C27: a check that returns allowed=false performs no KV write: the stored
\* records are unchanged by a denied check of the sliding window, the token
\* bucket or the leaky bucket, by a denied checkAndIncrement, and by a 429
\* of the middleware.
C27_DeniedWritesNothing ==
    [][/\ LimiterRun => \A r \in last' : ~r.allowed => kv' = kv
       /\ QuotaRun => \A r \in last' : (~r.allowed /\ ~prev'.pending) => kv' = kv
       /\ GatewayRun => \A r \in last' : r.status = 429 => kv' = kv]_vars

\* a checkAndIncrement denied by the daily quota in a new minute: the minute
\* counter it reset while reading is not written back
C27_Witness ==
    /\ QuotaRun
    /\ ~prev.pending
    /\ \E r \in last : r.exceededQuota = {"daily"} /\ r.quotas.minute.used = 0 /\ r.at = now
    /\ prev.stored = kv[KeyQuota]
    /\ \E e \in kv[KeyQuota] : e.val.minute.count > 0

\* C28: under serialised access every stored QuotaState has
\* minute.count <= perMinute, daily.count <= daily, monthly.count <= monthly
\* and minute.count <= daily.count <= monthly.count, after any sequence of
\* checkAndIncrement and resetQuota calls at non-decreasing times.
C28_StoredQuotaWithinLimits ==
    \A e \in kv[KeyQuota] :
        LET state == e.val
        IN  /\ state.minute.count <= config.perMinute
            /\ state.daily.count <= config.daily
            /\ state.monthly.count <= config.monthly
            /\ state.minute.count <= state.daily.count
            /\ state.daily.count <= state.monthly.count

\* a state stored after a reset-free run over a minute and a day boundary:
\* the three counters differ, and the monthly one is at its limit
C28_Witness ==
    \E e \in kv[KeyQuota] :
        /\ e.val.minute.count < e.val.daily.count
        /\ e.val.daily.count < e.val.monthly.count
        /\ e.val.monthly.count = config.monthly
        /\ \E r \in last : r.allowed /\ r.at = now

-----------------------------------------------------------------------------
(* requireAuth: the strict mode of the authentication middleware *)

\* the values of API_KEYS, split at the commas
AuthEnvs == {[apiKeys |-> ks, environment |-> Environment] : ks \in {{}, {"k1"}, {"k1", "k2"}}}

\* the values of the Authorization header in the runs
AuthorizationValues ==
    {BearerPrefix \o <<"t">>, BearerPrefix, <<"B", "a", "s", "i", "c", " ", "x">>}

\* the requests of the runs: X-API-Key and Authorization present or not
AuthRequests ==
    [path : {"/health", "/api/version"},
     apiKey : {{}, {""}, {"k1"}, {"k2"}, {"bad"}},
     authorization : {{}} \cup {{v} : v \in AuthorizationValues}]

\* if (!apiKey && !authHeader) of requireAuth: neither header has a non-empty value
NothingGiven(req) == ~KeyGiven(req) /\ (req.authorization = {} \/ req.authorization = {<< >>})

\* requireAuth(c, next)
RequireAuth(env, req) ==
    IF NothingGiven(req)
    THEN [next |-> FALSE,
          response |-> {[status |-> 401,
                         body |-> [error |-> "Unauthorized",
                                   message |-> "Authentication required. Provide X-API-Key or Authorization header."]]}]
    ELSE Auth(env, req)

\* a request runs through requireAuth and, when that calls next(), the handler
StrictRequest(req) ==
    /\ \E m \in {RequireAuth(config, req)} :
           LET answer == IF m.next THEN RouteHandler(config, req) ELSE CHOOSE r \in m.response : TRUE
           IN  last' = {[status |-> answer.status, body |-> answer.body, handled |-> m.next,
                         req |-> req, at |-> now]}
    /\ UNCHANGED <<now, startDay, config, cleared, kv, log, burst, pc, snap, tally, members, probed, prev,
                   loadFactor, metrics, recorded, healthChecks, calls, health, unexpiring, twin>>

InitAuth ==
    /\ now = 0
    /\ config \in AuthEnvs
    /\ kv = EmptyKV
    /\ last = {}
    /\ log = <<>>
    /\ Idle

NextAuth == \E req \in AuthRequests : StrictRequest(req)
SpecAuth == InitAuth /\ [][NextAuth]_vars

\* the X-API-Key of a request is valid: a member of the configured keys, or
\* any key when none is configured
ValidKey(env, req) == req.apiKey # {} /\ (env.apiKeys = {} \/ req.apiKey \subseteq env.apiKeys)

\* C29: in strict mode every request that reaches the next handler carries a
\* valid X-API-Key or an Authorization header of the form
\* 'Bearer <non-empty token>'; any other request is answered 401.
C29_StrictModeAuthenticates ==
    \A r \in last :
        IF ValidKey(config, r.req) \/ BearerToken(r.req)
        THEN r.handled => r.status = 200
        ELSE ~r.handled /\ r.status = 401

====
